---- MODULE Spec2Model ----
(***************************************************************************)
(* A model of the bitcask-style key/value engine of src/src/engine/kv.rs:  *)
(* an append-only log of Set/Rm records in files <N>.log, the in-memory    *)
(* key directory that maps a key to (log_idx, starting_pos, len), the      *)
(* shared reader cache, the writer with its tracked position, and the      *)
(* compactor.  Files are modelled byte by byte (one cell per byte), so a   *)
(* key-directory entry with a wrong offset or a wrong generation reads the *)
(* bytes the program would read.                                           *)
(***************************************************************************)
EXTENDS Naturals, Sequences, FiniteSets, TLC

Keys == {"a", "b"}
Vals == {"1", "2"}
Threads == {1, 2}

\* Bounds of the model: client calls per behaviour, and close/open cycles.
MaxOps == 5
MaxOpens == 1
MaxOpsConc == 3
\* Worker threads of the pool, and jobs spawned per behaviour.
PoolSize == 3
MaxJobs == 3
\* Starts of kvs-server on one data directory.
MaxStarts == 6

COMPACTION_THRESHOLD == 20
\* COMPACTION_THRESHOLD of src/src/kv.rs.
SINGLE_COMPACTION_THRESHOLD == 1048576
\* Calls of the single-threaded engine per behaviour.
MaxOpsSingle == 4
\* Lines of the log file a replayed directory holds.
MaxRecords == 3
\* Calls made on a store opened on a directory an earlier process left.
MaxOpsGen == 3
\* Calls of set by the request handlers that share the store with the
\* compaction thread.
MaxUpdates == 3

VARIABLES
  files,          \* generation -> bytes of <generation>.log (an inode: kept while a handle is open)
  exists,         \* generations whose <N>.log is linked in the data directory
  readers,        \* KvsReader.readers: generations with a cached open handle
  key_dir,        \* key -> CommandPos, for the keys present
  writer,         \* the active BufWriterWithPos: file, tracked pos, OS cursor, append flag
  log_idx,        \* KvStore.log_idx (copied into every clone at open)
  compactor,      \* Compactor.log_idx and Compactor.uncompacted
  writer_lock,    \* holder of KvStore.writer's RwLock (0: free)
  compactor_lock, \* holder of KvStore.compactor's RwLock (0: free)
  pc,             \* thread -> position in its current call
  op,             \* thread -> the call it is in
  loc,            \* thread -> locals of the call
  res,            \* thread -> result of its last finished call
  ops,            \* calls left
  opens,          \* close/open cycles left
  lastDir,        \* key -> last set/remove whose effect reached the key directory
  lastLog,        \* key -> last set/remove whose record reached the log
  lastRet,        \* key -> last set/remove that returned, with its result
  job_queue,      \* NaiveThreadPool.job_queue: the jobs pushed and not yet popped
  job_available,  \* the bool inside the job_signal mutex
  job_signal,     \* holder of the job_signal mutex (0: free)
  poisoned,       \* a thread panicked while it held the job_signal mutex
  running,        \* NaiveThreadPool.running
  workers,        \* worker -> position in its loop
  runs,           \* job -> number of times a worker started it
  late,           \* job -> the workers that had panicked when the job was pushed
  owner,          \* the thread that owns the pool: position, jobs spawned, join index, clock
  conn,           \* thread -> the connection its handler serves
  stream,         \* thread -> responses written to the connection's stream
  marker,         \* the file `engine` of the data directory: <<>> when there is
                  \* none, else <<content>>
  server,         \* the kvs-server process: position in main, --engine flag, exit status
  client,         \* thread -> the kvs-client process on the other end of its connection
  single,         \* the store of the single-threaded engine of src/src/kv.rs
  receiver        \* the compaction thread of KvServer::start, its channel and the shared counter

engineVars == <<files, exists, readers, key_dir, writer, log_idx, compactor,
                writer_lock, compactor_lock, pc, op, loc, res, ops, opens,
                lastDir, lastLog, lastRet>>

poolVars == <<job_queue, job_available, job_signal, poisoned, running, workers,
              runs, late, owner>>

connVars == <<conn, stream>>

binVars == <<marker, server, client>>

vars == <<engineVars, poolVars, connVars, binVars, single, receiver>>

Min(a, b) == IF a < b THEN a ELSE b

\* ---------------------------------------------------------------- records

Requests ==
  [type : {"Set"}, key : Keys, val : Vals]
    \cup [type : {"Rm"}, key : Keys]
    \cup [type : {"Get"}, key : Keys]

DecodeError == [type |-> "Err"]

\* kvs_protocol's serializer: one newline-terminated line per request.
kvs_serialize(c) ==
  CASE c.type = "Set" -> <<"+", ":", "s", "e", "t", " ", c.key, " ", c.val, ":", "\n">>
    [] c.type = "Rm"  -> <<"+", ":", "r", "m", " ", c.key, ":", "\n">>
    [] c.type = "Get" -> <<"+", ":", "g", "e", "t", " ", c.key, ":", "\n">>

\* kvs_protocol's deserializer: the request whose line this is, or an error.
kvs_deserialize(buf) ==
  IF \E c \in Requests : kvs_serialize(c) = buf
    THEN CHOOSE c \in Requests : kvs_serialize(c) = buf
    ELSE DecodeError

\* ------------------------------------------------------------------ files

\* write(2) of bytes at offset off of a file opened without O_TRUNC.
WriteAt(content, off, bytes) ==
  SubSeq(content, 1, off) \o bytes
    \o SubSeq(content, off + Len(bytes) + 1, Len(content))

\* seek(Start(off)) then take(len): at most len bytes, fewer at end of file.
ReadAt(content, off, len) ==
  SubSeq(content, off + 1, Min(off + len, Len(content)))

CommandPos(g, off, len) == [log_idx |-> g, starting_pos |-> off, len |-> len]

\* ----------------------------------------------------------- key directory

DirInsert(kd, k, e) ==
  [x \in DOMAIN kd \cup {k} |-> IF x = k THEN e ELSE kd[x]]

\* Mutant: the entry is looked up but not taken out of the map.
DirRemove_Keeps(kd, k) == kd

DirRemove(kd, k) == [x \in DOMAIN kd \ {k} |-> kd[x]]

OldLen(kd, k) == IF k \in DOMAIN kd THEN kd[k].len ELSE 0

\* ---------------------------------------------------------------- results

Ok == [type |-> "Ok"]
Some(v) == [type |-> "Some", val |-> v]
None == [type |-> "None"]
Err(e) == [type |-> "Err", err |-> e]
NoRes == [type |-> "-"]
NoOp == [type |-> "-"]
NoLoc == [type |-> "-"]

\* ------------------------------------------------------------ reader side

\* The lazy open of KvsReader: a cached handle is used as it is (it keeps
\* reading its file after remove_file); a missing handle needs the file.
ReaderCanOpen(ex, rs, g) == g \in rs \/ g \in ex

ReadersAfter(ex, rs, g) == IF g \notin rs /\ g \in ex THEN rs \cup {g} ELSE rs

\* KvsReader::read_cmd_from_log: the request decoded from the entry's bytes.
read_cmd_from_log(fs, ex, rs, cmd_pos) ==
  IF ~ReaderCanOpen(ex, rs, cmd_pos.log_idx) THEN Err("IO")
  ELSE LET c == kvs_deserialize(
                  ReadAt(fs[cmd_pos.log_idx], cmd_pos.starting_pos, cmd_pos.len))
       IN IF c.type = "Err" THEN Err("KvsDeserializer") ELSE c

\* KvsReader::read_cmd_from_log_and_copy: the bytes io::copy moves.
read_cmd_from_log_and_copy(fs, cmd_pos) ==
  ReadAt(fs[cmd_pos.log_idx], cmd_pos.starting_pos, cmd_pos.len)

\* KvStore::get on a store in the given state.
GetValue(fs, ex, rs, kd, k) ==
  IF k \notin DOMAIN kd THEN None
  ELSE LET c == read_cmd_from_log(fs, ex, rs, kd[k])
       IN CASE c.type = "Err" -> c
            [] c.type = "Set" -> Some(c.val)
            [] OTHER -> Err("UnexpectedCommandType")

GetResult(k) == GetValue(files, exists, readers, key_dir, k)

\* ------------------------------------------------------------------- open

\* KvReqParser::next: the end of the next newline-terminated chunk after
\* offset off, or 0 when none is left.
NextChunkEnd(buf, off) ==
  IF \E i \in (off + 1)..Len(buf) : buf[i] = "\n"
    THEN CHOOSE i \in (off + 1)..Len(buf) :
           /\ buf[i] = "\n"
           /\ \A j \in (off + 1)..(i - 1) : buf[j] # "\n"
    ELSE 0

\* The replay loop of KvStore::open over one log file: st is the key
\* directory and the uncompacted count built so far.
RECURSIVE replay_file(_, _, _, _, _)
replay_file(buf, lf_idx, off, starting_pos, st) ==
  LET read_so_far == NextChunkEnd(buf, off) IN
  IF read_so_far = 0 THEN st
  ELSE LET cmd == kvs_deserialize(SubSeq(buf, off + 1, read_so_far)) IN
       IF cmd.type = "Err"
         THEN replay_file(buf, lf_idx, read_so_far, starting_pos, st)
       ELSE IF cmd.type = "Set"
         THEN replay_file(buf, lf_idx, read_so_far, read_so_far,
                [kd |-> DirInsert(st.kd, cmd.key,
                          CommandPos(lf_idx, starting_pos, read_so_far - starting_pos)),
                 uncompacted |-> st.uncompacted + OldLen(st.kd, cmd.key)])
       ELSE IF cmd.type = "Rm"
         THEN replay_file(buf, lf_idx, read_so_far, read_so_far,
                [kd |-> DirRemove(st.kd, cmd.key),
                 uncompacted |-> st.uncompacted + OldLen(st.kd, cmd.key)])
       ELSE replay_file(buf, lf_idx, read_so_far, read_so_far, st)

\* log_files: the generations in the directory, sorted; here the smallest
\* generation above g, or 0.
NextLogFile(ex, g) ==
  IF \E x \in ex : x > g
    THEN CHOOSE x \in ex : x > g /\ \A y \in ex : y > g => x <= y
    ELSE 0

LastLogFile(ex) == IF ex = {} THEN 0 ELSE CHOOSE x \in ex : \A y \in ex : y <= x

RECURSIVE replay(_, _, _, _)
replay(fs, ex, g, st) ==
  LET lf_idx == NextLogFile(ex, g) IN
  IF lf_idx = 0 THEN st
  ELSE replay(fs, ex, lf_idx, replay_file(fs[lf_idx], lf_idx, 0, 0, st))

EmptyDir == [k \in {} |-> 0]

NoFiles == [g \in {} |-> <<>>]

\* The new generation is the number of log files plus one.
NewLogFileIdx_Count(ex) == Cardinality(ex) + 1

\* Line 333: `log_files.last().unwrap_or(&0) + 1`.
NewLogFileIdx(ex) == LastLogFile(ex) + 1

\* KvStore::open on a data directory holding the files fs (linked: ex).
open(fs, ex) ==
  LET st == replay(fs, ex, 0, [kd |-> EmptyDir, uncompacted |-> 0])
      new_log_file_idx == NewLogFileIdx(ex)
  IN [files     |-> [g \in ex \cup {new_log_file_idx} |->
                       IF g \in ex THEN fs[g] ELSE <<>>],
      exists    |-> ex \cup {new_log_file_idx},
      readers   |-> ex \cup {new_log_file_idx},
      key_dir   |-> st.kd,
      writer    |-> [log_idx |-> new_log_file_idx, pos |-> 0, cursor |-> 0,
                     append |-> TRUE],
      log_idx   |-> new_log_file_idx,
      compactor |-> [log_idx |-> new_log_file_idx, uncompacted |-> st.uncompacted]]

\* ------------------------------------------------------------ writer side

\* Where a write through the handle lands: at end of file for a handle
\* opened with append, at the handle's cursor otherwise.
WriteOffset(fs, w) == IF w.append THEN Len(fs[w.log_idx]) ELSE w.cursor

FileWrite(fs, w, bytes) ==
  [fs EXCEPT ![w.log_idx] = WriteAt(@, WriteOffset(fs, w), bytes)]

\* BufWriterWithPos::write then flush: the bytes reach the file and pos
\* advances by their number.
BufWriterWithPos_write(fs, w, bytes) ==
  [w EXCEPT !.pos = @ + Len(bytes),
            !.cursor = WriteOffset(fs, w) + Len(bytes)]

\* A write through the wrapper's inner BufWriter (buf_writer.writer.write):
\* the bytes reach the file, the wrapper's pos is not touched.
InnerWriter_write(fs, w, bytes) ==
  [w EXCEPT !.cursor = WriteOffset(fs, w) + Len(bytes)]

\* The entry KvStore::set inserts for a record written from prev_pos.
SetEntry(idx, prev_pos, w) ==
  CommandPos(idx, prev_pos, w.pos - prev_pos)

\* The writer KvStore::remove leaves after appending its Rm record.
RemoveWriter(fs, w, bytes) == InnerWriter_write(fs, w, bytes)

\* Mutant: remove goes on to append its record whether or not the key is
\* present (as the single-threaded engine of src/src/kv.rs does).
RemoveHit_Always(kd, k) == TRUE

\* `if let Some(..) = self.key_dir.remove(&key)` of KvStore::remove.
RemoveHit(kd, k) == k \in DOMAIN kd

\* Mutant: the loop stops one generation early and keeps the file the
\* writer was appending to.
StaleRange_KeepsActive(new_compaction_log_idx) ==
  {i \in 1..new_compaction_log_idx : i + 1 < new_compaction_log_idx}

\* The generations Compactor::compaction tries to delete, in order.
StaleRange(new_compaction_log_idx) == 1..(new_compaction_log_idx - 1)

\* The generation KvStore::set tags its entry with (self.log_idx).
SetLogIdx == log_idx

LocInit == [old_cmd_len |-> 0, rm_len |-> 0, new_compaction_log_idx |-> 0,
            todo |-> {}, cbuf |-> <<>>, new_starting_pos |-> 0]

WriteOp(t) == [type |-> op[t].type, key |-> op[t].key,
               val |-> IF op[t].type = "Set" THEN op[t].val ELSE "-", by |-> t]

\* A call returns r to its caller.
Return(t, r) ==
  /\ pc' = [pc EXCEPT ![t] = "idle"]
  /\ res' = [res EXCEPT ![t] = r]
  /\ loc' = [loc EXCEPT ![t] = LocInit]
  /\ op' = [op EXCEPT ![t] = NoOp]
  /\ lastRet' = IF op[t].type \in {"Set", "Rm"}
                  THEN [lastRet EXCEPT ![op[t].key] =
                          [op |-> WriteOp(t), res |-> r,
                           conc |-> op[t].conc, mid |-> op[t].mid]]
                  ELSE lastRet

\* The positions of a thread inside Compactor::compaction, after its first
\* step.
CompactionPCs == {"compaction_copy", "compaction_remove", "compaction_rotate"}

\* History kept with a call: conc, whether a compaction of another thread ran
\* during the call; mid, whether the call changed the key directory while
\* another thread's compaction was iterating it; before, what get of the
\* call's key returned when the call started.
Tagged(c, conc, mid) ==
  IF c.type = "Set"
    THEN [type |-> "Set", key |-> c.key, val |-> c.val, conc |-> conc, mid |-> mid,
          before |-> GetResult(c.key)]
    ELSE [type |-> c.type, key |-> c.key, conc |-> conc, mid |-> mid,
          before |-> GetResult(c.key)]

Call(t, c) ==
  /\ pc[t] = "idle"
  /\ ops > 0
  /\ ops' = ops - 1
  /\ op' = [op EXCEPT ![t] =
              Tagged(c, \E u \in Threads \ {t} : pc[u] \in CompactionPCs, FALSE)]
  /\ res' = [res EXCEPT ![t] = NoRes]
  /\ pc' = [pc EXCEPT ![t] = IF c.type = "Set" THEN "set_append"
                             ELSE IF c.type = "Rm" THEN "remove_key_dir"
                             ELSE "get"]
  /\ UNCHANGED <<files, exists, readers, key_dir, writer, log_idx, compactor,
                 writer_lock, compactor_lock, loc, opens, lastDir, lastLog, lastRet>>

call(t) ==
  /\ \E c \in Requests : Call(t, c)
  /\ UNCHANGED <<poolVars, connVars, binVars, single, receiver>>

\* The writer is written without waiting for its lock.
WriteGuard_Ignored(lock) == TRUE

\* self.writer.write().unwrap() of lines 195 and 249: the guard is granted
\* when no thread holds the lock.
WriteGuard(lock) == lock = 0

\* KvStore::set, lines 195-218: under the writer lock, append the record
\* and insert the entry.
set_append(t) ==
  /\ pc[t] = "set_append"
  /\ WriteGuard(writer_lock)
  /\ LET bytes == kvs_serialize(op[t])
         prev_pos == writer.pos
         w == BufWriterWithPos_write(files, writer, bytes)
     IN /\ files' = FileWrite(files, writer, bytes)
        /\ writer' = w
        /\ key_dir' = DirInsert(key_dir, op[t].key, SetEntry(SetLogIdx, prev_pos, w))
        /\ loc' = [loc EXCEPT ![t].old_cmd_len = OldLen(key_dir, op[t].key)]
  /\ lastDir' = [lastDir EXCEPT ![op[t].key] = WriteOp(t)]
  /\ lastLog' = [lastLog EXCEPT ![op[t].key] = WriteOp(t)]
  /\ pc' = [pc EXCEPT ![t] = "set_uncompacted"]
  /\ UNCHANGED <<poolVars, connVars, binVars, single, receiver>>
  /\ UNCHANGED <<exists, readers, log_idx, compactor, writer_lock, compactor_lock,
                 op, res, ops, opens, lastRet>>

\* KvStore::set, lines 221-224.
set_uncompacted(t) ==
  /\ pc[t] = "set_uncompacted"
  /\ IF loc[t].old_cmd_len > 0
       THEN /\ compactor_lock = 0
            /\ compactor' = [compactor EXCEPT !.uncompacted = @ + loc[t].old_cmd_len]
       ELSE UNCHANGED compactor
  /\ pc' = [pc EXCEPT ![t] = "set_check"]
  /\ UNCHANGED <<poolVars, connVars, binVars, single, receiver>>
  /\ UNCHANGED <<files, exists, readers, key_dir, writer, log_idx, writer_lock,
                 compactor_lock, op, loc, res, ops, opens, lastDir, lastLog, lastRet>>

\* KvStore::set, line 226 and the return of line 232.
set_check(t) ==
  /\ pc[t] = "set_check"
  /\ compactor_lock = 0
  /\ IF compactor.uncompacted > COMPACTION_THRESHOLD
       THEN /\ pc' = [pc EXCEPT ![t] = "set_lock_writer"]
            /\ UNCHANGED <<op, loc, res, lastRet>>
       ELSE Return(t, Ok)
  /\ UNCHANGED <<poolVars, connVars, binVars, single, receiver>>
  /\ UNCHANGED <<files, exists, readers, key_dir, writer, log_idx, compactor,
                 writer_lock, compactor_lock, ops, opens, lastDir, lastLog>>

\* KvStore::set, line 227.
set_lock_writer(t) ==
  /\ pc[t] = "set_lock_writer"
  /\ writer_lock = 0
  /\ writer_lock' = t
  /\ pc' = [pc EXCEPT ![t] = "set_lock_compactor"]
  /\ UNCHANGED <<poolVars, connVars, binVars, single, receiver>>
  /\ UNCHANGED <<files, exists, readers, key_dir, writer, log_idx, compactor,
                 compactor_lock, op, loc, res, ops, opens, lastDir, lastLog, lastRet>>

\* KvStore::set, line 228.
set_lock_compactor(t) ==
  /\ pc[t] = "set_lock_compactor"
  /\ compactor_lock = 0
  /\ compactor_lock' = t
  /\ pc' = [pc EXCEPT ![t] = "compaction_open"]
  /\ UNCHANGED <<poolVars, connVars, binVars, single, receiver>>
  /\ UNCHANGED <<files, exists, readers, key_dir, writer, log_idx, compactor,
                 writer_lock, op, loc, res, ops, opens, lastDir, lastLog, lastRet>>

\* KvStore::remove, line 248 and the KeyNotFound return of line 270.
remove_key_dir(t) ==
  /\ pc[t] = "remove_key_dir"
  /\ IF RemoveHit(key_dir, op[t].key)
       THEN /\ key_dir' = DirRemove(key_dir, op[t].key)
            /\ loc' = [loc EXCEPT ![t].old_cmd_len = OldLen(key_dir, op[t].key)]
            /\ lastDir' = [lastDir EXCEPT ![op[t].key] = WriteOp(t)]
            /\ pc' = [pc EXCEPT ![t] = "remove_append"]
            /\ op' = [op EXCEPT ![t].mid =
                        \E u \in Threads \ {t} : pc[u] = "compaction_copy"]
            /\ UNCHANGED <<res, lastRet>>
       ELSE /\ Return(t, Err("KeyNotFound"))
            /\ UNCHANGED <<key_dir, lastDir>>
  /\ UNCHANGED <<poolVars, connVars, binVars, single, receiver>>
  /\ UNCHANGED <<files, exists, readers, writer, log_idx, compactor, writer_lock,
                 compactor_lock, ops, opens, lastLog>>

\* KvStore::remove, lines 249-255: under the writer lock, append the Rm
\* record through the inner writer.
remove_append(t) ==
  /\ pc[t] = "remove_append"
  /\ WriteGuard(writer_lock)
  /\ LET bytes == kvs_serialize(op[t])
         pos_before_writing == writer.pos
         w == RemoveWriter(files, writer, bytes)
         pos_after_writing == w.pos
     IN /\ files' = FileWrite(files, writer, bytes)
        /\ writer' = w
        /\ loc' = [loc EXCEPT ![t].rm_len = pos_after_writing - pos_before_writing]
  /\ lastLog' = [lastLog EXCEPT ![op[t].key] = WriteOp(t)]
  /\ pc' = [pc EXCEPT ![t] = "remove_uncompacted"]
  /\ UNCHANGED <<poolVars, connVars, binVars, single, receiver>>
  /\ UNCHANGED <<exists, readers, key_dir, log_idx, compactor, writer_lock,
                 compactor_lock, op, res, ops, opens, lastDir, lastRet>>

\* KvStore::remove, lines 258-262: under the compactor lock, which is kept
\* when the threshold is passed.
remove_uncompacted(t) ==
  /\ pc[t] = "remove_uncompacted"
  /\ compactor_lock = 0
  /\ LET u == compactor.uncompacted + loc[t].rm_len + loc[t].old_cmd_len
     IN /\ compactor' = [compactor EXCEPT !.uncompacted = u]
        /\ IF u > COMPACTION_THRESHOLD
             THEN /\ compactor_lock' = t
                  /\ pc' = [pc EXCEPT ![t] = "remove_lock_writer"]
                  /\ UNCHANGED <<op, loc, res, lastRet>>
             ELSE /\ Return(t, Ok)
                  /\ UNCHANGED compactor_lock
  /\ UNCHANGED <<poolVars, connVars, binVars, single, receiver>>
  /\ UNCHANGED <<files, exists, readers, key_dir, writer, log_idx, writer_lock,
                 ops, opens, lastDir, lastLog>>

\* KvStore::remove, line 263.
remove_lock_writer(t) ==
  /\ pc[t] = "remove_lock_writer"
  /\ writer_lock = 0
  /\ writer_lock' = t
  /\ pc' = [pc EXCEPT ![t] = "compaction_open"]
  /\ UNCHANGED <<poolVars, connVars, binVars, single, receiver>>
  /\ UNCHANGED <<files, exists, readers, key_dir, writer, log_idx, compactor,
                 compactor_lock, op, loc, res, ops, opens, lastDir, lastLog, lastRet>>

\* KvStore::get: the entry is read and its record decoded while the map's
\* guard on the entry is held.
get(t) ==
  /\ pc[t] = "get"
  /\ readers' = IF op[t].key \in DOMAIN key_dir
                  THEN ReadersAfter(exists, readers, key_dir[op[t].key].log_idx)
                  ELSE readers
  /\ Return(t, GetResult(op[t].key))
  /\ UNCHANGED <<poolVars, connVars, binVars, single, receiver>>
  /\ UNCHANGED <<files, exists, key_dir, writer, log_idx, compactor, writer_lock,
                 compactor_lock, ops, opens, lastDir, lastLog>>

\* --------------------------------------------------------------- compactor

\* Mutant: the compactor writes an entry for every key it had planned to
\* visit, also one that was removed in the meantime.
SkipMissing_Reinserts(kd, k, e) == DirInsert(kd, k, e)

\* key_dir.iter_mut() yields only the entries that are in the map: for a key
\* that is not (or no longer) there the loop body does not run and the map
\* is left as it is.
SkipMissing(kd, k, e) == kd

\* A compaction ends: both guards are dropped and the call returns r.
CompactionReturn(t, r) ==
  /\ writer_lock' = 0
  /\ compactor_lock' = 0
  /\ Return(t, r)

\* Compactor::compaction, lines 52-69: create (or reopen, without
\* truncating) the compaction file.
compaction_open(t) ==
  /\ pc[t] = "compaction_open"
  /\ LET new_compaction_log_idx == compactor.log_idx + 1
     IN /\ exists' = exists \cup {new_compaction_log_idx}
        /\ files' = IF new_compaction_log_idx \in DOMAIN files THEN files
                    ELSE [g \in DOMAIN files \cup {new_compaction_log_idx} |->
                            IF g \in DOMAIN files THEN files[g] ELSE <<>>]
        /\ loc' = [loc EXCEPT ![t].new_compaction_log_idx = new_compaction_log_idx,
                              ![t].todo = Keys,
                              ![t].cbuf = <<>>,
                              ![t].new_starting_pos = 0]
  /\ op' = [u \in Threads |->
              IF u # t /\ pc[u] # "idle" THEN [op[u] EXCEPT !.conc = TRUE] ELSE op[u]]
  /\ pc' = [pc EXCEPT ![t] = "compaction_copy"]
  /\ UNCHANGED <<poolVars, connVars, binVars, single, receiver>>
  /\ UNCHANGED <<readers, key_dir, writer, log_idx, compactor, writer_lock,
                 compactor_lock, res, ops, opens, lastDir, lastLog, lastRet>>

\* Compactor::compaction, lines 72-85: one turn of the iteration, for the
\* next key k the map's iterator yields (any order); a key no longer in the
\* map is not yielded.  An error of the copy drops the compaction writer,
\* which flushes what it buffered.
compaction_copy(t) ==
  /\ pc[t] = "compaction_copy"
  /\ \E k \in loc[t].todo :
       IF k \notin DOMAIN key_dir
         THEN /\ loc' = [loc EXCEPT ![t].todo = @ \ {k}]
              /\ key_dir' = SkipMissing(key_dir, k,
                               CommandPos(loc[t].new_compaction_log_idx,
                                          loc[t].new_starting_pos, 0))
              /\ UNCHANGED <<files, readers, writer_lock, compactor_lock,
                             pc, op, res, lastRet>>
       ELSE IF ~ReaderCanOpen(exists, readers, key_dir[k].log_idx)
         THEN /\ files' = [files EXCEPT ![loc[t].new_compaction_log_idx] =
                             WriteAt(@, 0, loc[t].cbuf)]
              /\ CompactionReturn(t, Err("IO"))
              /\ UNCHANGED <<readers, key_dir>>
       ELSE LET copied == read_cmd_from_log_and_copy(files, key_dir[k])
                copied_bytes == Len(copied)
            IN /\ readers' = ReadersAfter(exists, readers, key_dir[k].log_idx)
               /\ key_dir' = [key_dir EXCEPT ![k] =
                                CommandPos(loc[t].new_compaction_log_idx,
                                           loc[t].new_starting_pos, copied_bytes)]
               /\ loc' = [loc EXCEPT ![t].todo = @ \ {k},
                                     ![t].cbuf = @ \o copied,
                                     ![t].new_starting_pos = @ + copied_bytes]
               /\ UNCHANGED <<files, writer_lock, compactor_lock, pc, op, res, lastRet>>
  /\ UNCHANGED <<poolVars, connVars, binVars, single, receiver>>
  /\ UNCHANGED <<exists, writer, log_idx, compactor, ops, opens, lastDir, lastLog>>

\* Compactor::compaction, line 86: the copied records reach the file.
compaction_flush(t) ==
  /\ pc[t] = "compaction_copy"
  /\ loc[t].todo = {}
  /\ files' = [files EXCEPT ![loc[t].new_compaction_log_idx] =
                 WriteAt(@, 0, loc[t].cbuf)]
  /\ pc' = [pc EXCEPT ![t] = "compaction_remove"]
  /\ UNCHANGED <<poolVars, connVars, binVars, single, receiver>>
  /\ UNCHANGED <<exists, readers, key_dir, writer, log_idx, compactor, writer_lock,
                 compactor_lock, op, loc, res, ops, opens, lastDir, lastLog, lastRet>>

\* The files remove_file deletes before the loop ends: all of the range, or
\* those before the first one that is missing.
Removed(ex, range) == {i \in range : \A j \in range : j <= i => j \in ex}

\* Compactor::compaction, lines 91-93.
compaction_remove(t) ==
  /\ pc[t] = "compaction_remove"
  /\ LET range == StaleRange(loc[t].new_compaction_log_idx)
     IN /\ exists' = exists \ Removed(exists, range)
        /\ IF range \subseteq exists
             THEN /\ pc' = [pc EXCEPT ![t] = "compaction_rotate"]
                  /\ UNCHANGED <<writer_lock, compactor_lock, op, loc, res, lastRet>>
             ELSE CompactionReturn(t, Err("IO"))
  /\ UNCHANGED <<poolVars, connVars, binVars, single, receiver>>
  /\ UNCHANGED <<files, readers, key_dir, writer, log_idx, compactor, ops, opens,
                 lastDir, lastLog>>

\* Compactor::compaction, lines 98-110: the writer moves to log_idx + 2.
compaction_rotate(t) ==
  /\ pc[t] = "compaction_rotate"
  /\ LET g == compactor.log_idx + 2
     IN /\ compactor' = [log_idx |-> g, uncompacted |-> 0]
        /\ writer' = [log_idx |-> g, pos |-> 0, cursor |-> 0, append |-> FALSE]
        /\ exists' = exists \cup {g}
        /\ files' = IF g \in DOMAIN files THEN files
                    ELSE [x \in DOMAIN files \cup {g} |->
                            IF x \in DOMAIN files THEN files[x] ELSE <<>>]
  /\ CompactionReturn(t, Ok)
  /\ UNCHANGED <<poolVars, connVars, binVars, single, receiver>>
  /\ UNCHANGED <<readers, key_dir, log_idx, ops, opens, lastDir, lastLog>>

\* ------------------------------------------------------------ close; open

NoOps == [k \in Keys |-> NoOp]
NoRets == [k \in Keys |-> [op |-> NoOp, res |-> NoRes, conc |-> FALSE, mid |-> FALSE]]

\* The process ends with no call in progress and KvStore::open runs again
\* on the same directory.
reopen ==
  /\ opens > 0
  /\ \A t \in Threads : pc[t] = "idle"
  /\ opens' = opens - 1
  /\ LET s == open(files, exists)
     IN /\ files' = s.files
        /\ exists' = s.exists
        /\ readers' = s.readers
        /\ key_dir' = s.key_dir
        /\ writer' = s.writer
        /\ log_idx' = s.log_idx
        /\ compactor' = s.compactor
  /\ res' = [t \in Threads |-> NoRes]
  /\ lastDir' = NoOps
  /\ lastLog' = NoOps
  /\ lastRet' = NoRets
  /\ UNCHANGED <<poolVars, connVars, binVars, single, receiver>>
  /\ UNCHANGED <<writer_lock, compactor_lock, pc, op, loc, ops>>

\* ------------------------------------------------------------ thread pool
\* NaiveThreadPool of src/src/thread_pool/naive.rs: PoolSize worker threads
\* around a lock-free queue, a mutex-protected flag with a condition
\* variable, and an atomic running flag.  The thread that owns the pool
\* spawns jobs and shuts the pool down.

Workers == 1..PoolSize

Task(j) == [kind |-> "Task", id |-> j]

OwnerInit == [pc |-> "idle", spawned |-> 0, next |-> 1, timed_out |-> FALSE,
              result |-> NoRes]

Panicked == {w \in Workers : workers[w] = "panicked"}

\* SegQueue::pop keeps the head for another pop.
Pop_Keeps(q) == q

\* SegQueue::pop removes the head of the queue.
Pop(q) == Tail(q)

\* The MutexGuard job_available is dropped at the end of the None arm
\* (line 47): the mutex is free while the worker pops and runs a task.
GuardAfterArm(w) == 0

\* Line 32: job_queue.pop().  Task: run it; Shutdown: leave the loop; None:
\* go and wait for the signal.
worker_pop(w) ==
  /\ workers[w] = "pop"
  /\ IF job_queue = <<>>
       THEN /\ workers' = [workers EXCEPT ![w] = "lock"]
            /\ UNCHANGED <<job_queue, runs>>
       ELSE /\ job_queue' = Pop(job_queue)
            /\ IF Head(job_queue).kind = "Task"
                 THEN /\ workers' = [workers EXCEPT ![w] = "task"]
                      /\ runs' = [runs EXCEPT ![Head(job_queue).id] = @ + 1]
                 ELSE /\ workers' = [workers EXCEPT ![w] = "exited"]
                      /\ UNCHANGED runs
  /\ UNCHANGED <<job_available, job_signal, poisoned, running, late, owner>>
  /\ UNCHANGED <<engineVars, connVars, binVars, single, receiver>>

\* Line 33: task().  The closure returns, or it panics and unwinds the
\* worker thread; unwinding drops a guard the thread holds and poisons its
\* mutex.
worker_task(w) ==
  /\ workers[w] = "task"
  /\ \E panics \in BOOLEAN :
       IF panics
         THEN /\ workers' = [workers EXCEPT ![w] = "panicked"]
              /\ poisoned' = (poisoned \/ job_signal = w)
              /\ job_signal' = IF job_signal = w THEN 0 ELSE job_signal
         ELSE /\ workers' = [workers EXCEPT ![w] = "pop"]
              /\ UNCHANGED <<poisoned, job_signal>>
  /\ UNCHANGED <<job_queue, job_available, running, runs, late, owner>>
  /\ UNCHANGED <<engineVars, connVars, binVars, single, receiver>>

\* Line 39: lock.lock().unwrap() panics on a poisoned mutex.
worker_lock(w) ==
  /\ workers[w] = "lock"
  /\ job_signal = 0
  /\ IF poisoned
       THEN /\ workers' = [workers EXCEPT ![w] = "panicked"]
            /\ UNCHANGED job_signal
       ELSE /\ workers' = [workers EXCEPT ![w] = "check"]
            /\ job_signal' = w
  /\ UNCHANGED <<job_queue, job_available, poisoned, running, runs, late, owner>>
  /\ UNCHANGED <<engineVars, connVars, binVars, single, receiver>>

\* Lines 40-46, with the mutex held: wait while the flag is clear and the
\* pool is running (wait_timeout releases the mutex); otherwise clear the
\* flag and leave the arm.
worker_check(w) ==
  /\ workers[w] = "check"
  /\ IF ~job_available /\ running
       THEN /\ workers' = [workers EXCEPT ![w] = "wait"]
            /\ job_signal' = 0
            /\ UNCHANGED job_available
       ELSE /\ workers' = [workers EXCEPT ![w] = "pop"]
            /\ job_available' = FALSE
            /\ job_signal' = GuardAfterArm(w)
  /\ UNCHANGED <<job_queue, poisoned, running, runs, late, owner>>
  /\ UNCHANGED <<engineVars, connVars, binVars, single, receiver>>

\* Lines 41-44: wait_timeout returns after a notification or after 100 ms,
\* with the mutex taken again; unwrap panics if the mutex is poisoned.
worker_wake(w) ==
  /\ workers[w] = "wait"
  /\ job_signal = 0
  /\ IF poisoned
       THEN /\ workers' = [workers EXCEPT ![w] = "panicked"]
            /\ UNCHANGED job_signal
       ELSE /\ workers' = [workers EXCEPT ![w] = "check"]
            /\ job_signal' = w
  /\ UNCHANGED <<job_queue, job_available, poisoned, running, runs, late, owner>>
  /\ UNCHANGED <<engineVars, connVars, binVars, single, receiver>>

worker(w) ==
  \/ worker_pop(w)
  \/ worker_task(w)
  \/ worker_lock(w)
  \/ worker_check(w)
  \/ worker_wake(w)

\* spawn leaves the flag clear.
SpawnSignal_Unset == FALSE

\* Line 116: *job_available = true.
SpawnSignal == TRUE

\* NaiveThreadPool::spawn, lines 110-112: push Job::Task.
spawn_push ==
  /\ owner.pc = "idle"
  /\ owner.spawned < MaxJobs
  /\ job_queue' = Append(job_queue, Task(owner.spawned + 1))
  /\ late' = [late EXCEPT ![owner.spawned + 1] = Panicked]
  /\ owner' = [owner EXCEPT !.pc = "spawn_notify", !.spawned = @ + 1]
  /\ UNCHANGED <<job_available, job_signal, poisoned, running, workers, runs>>
  /\ UNCHANGED <<engineVars, connVars, binVars, single, receiver>>

\* NaiveThreadPool::spawn, lines 114-118: lock, set the flag, notify_all; the
\* guard is dropped when spawn returns.  lock().unwrap() panics on a poisoned
\* mutex.
spawn_notify ==
  /\ owner.pc = "spawn_notify"
  /\ job_signal = 0
  /\ IF poisoned
       THEN /\ owner' = [owner EXCEPT !.pc = "panicked"]
            /\ UNCHANGED job_available
       ELSE /\ owner' = [owner EXCEPT !.pc = "idle"]
            /\ job_available' = SpawnSignal
  /\ UNCHANGED <<job_queue, job_signal, poisoned, running, workers, runs, late>>
  /\ UNCHANGED <<engineVars, connVars, binVars, single, receiver>>

\* NaiveThreadPool::shutdown, lines 123-125 (called directly or by Drop).
shutdown_store ==
  /\ owner.pc = "idle"
  /\ running' = FALSE
  /\ owner' = [owner EXCEPT !.pc = "shutdown_try_lock"]
  /\ UNCHANGED <<job_queue, job_available, job_signal, poisoned, workers, runs, late>>
  /\ UNCHANGED <<engineVars, connVars, binVars, single, receiver>>

\* Lines 128-139: try_lock; on success set the flag and notify_all.
shutdown_try_lock ==
  /\ owner.pc = "shutdown_try_lock"
  /\ job_available' = IF job_signal = 0 /\ ~poisoned THEN TRUE ELSE job_available
  /\ owner' = [owner EXCEPT !.pc = "shutdown_loop"]
  /\ UNCHANGED <<job_queue, job_signal, poisoned, running, workers, runs, late>>
  /\ UNCHANGED <<engineVars, connVars, binVars, single, receiver>>

ShutdownReturn(r) == owner' = [owner EXCEPT !.pc = "returned", !.result = r]

\* Lines 142-152 and 161-165: the head of the join loop.  With a worker
\* left: Err(Pooling) if the timeout has passed, otherwise go and join it.
\* With no worker left: the final timeout check.
shutdown_loop ==
  /\ owner.pc = "shutdown_loop"
  /\ IF owner.timed_out
       THEN ShutdownReturn(Err("Pooling"))
       ELSE IF owner.next \in Workers
              THEN owner' = [owner EXCEPT !.pc = "shutdown_join"]
              ELSE ShutdownReturn(Ok)
  /\ UNCHANGED <<job_queue, job_available, job_signal, poisoned, running,
                 workers, runs, late>>
  /\ UNCHANGED <<engineVars, connVars, binVars, single, receiver>>

\* Lines 155-157: thread.join() blocks until the worker thread has ended, and
\* is an error if the thread panicked.
shutdown_join ==
  /\ owner.pc = "shutdown_join"
  /\ workers[owner.next] \in {"exited", "panicked"}
  /\ IF workers[owner.next] = "panicked"
       THEN ShutdownReturn(Err("Pooling"))
       ELSE owner' = [owner EXCEPT !.pc = "shutdown_loop", !.next = @ + 1]
  /\ UNCHANGED <<job_queue, job_available, job_signal, poisoned, running,
                 workers, runs, late>>
  /\ UNCHANGED <<engineVars, connVars, binVars, single, receiver>>

\* Time passes during shutdown: start.elapsed() reaches the timeout.
clock ==
  /\ owner.pc \in {"shutdown_try_lock", "shutdown_loop", "shutdown_join"}
  /\ ~owner.timed_out
  /\ owner' = [owner EXCEPT !.timed_out = TRUE]
  /\ UNCHANGED <<job_queue, job_available, job_signal, poisoned, running,
                 workers, runs, late>>
  /\ UNCHANGED <<engineVars, connVars, binVars, single, receiver>>

\* NaiveThreadPool::new, lines 83-95.
InitPool ==
  /\ job_queue = <<>>
  /\ job_available = FALSE
  /\ job_signal = 0
  /\ poisoned = FALSE
  /\ running = TRUE
  /\ workers = [w \in Workers |-> "pop"]
  /\ runs = [j \in 1..MaxJobs |-> 0]
  /\ late = [j \in 1..MaxJobs |-> {}]
  /\ owner = OwnerInit

\* ------------------------------------------------------ connection handler
\* handle_client_req of src/src/server.rs, run on a thread of the pool with
\* a clone of the engine: one request line in, the engine call, the
\* response written to the stream.

\* The lines a peer that speaks kvs_protocol may send: the requests and a
\* malformed line.
ClientLines == {kvs_serialize(c) : c \in Requests} \cup {<<"x", "\n">>}

ConnInit == [stage |-> "closed", buf |-> <<>>, req |-> NoOp, engine |-> NoRes,
             ret |-> NoRes]

\* transport.rs: Response { error: Option<String>, result: String }.
Response(error, result) == [error |-> error, result |-> result]

\* Response::default().
DefaultResponse == Response(None, "")

\* Lines 229-244: the response to a Get, from the Ok value of engine.get.
GetResponse(v) ==
  IF v.type = "Some"
    THEN [DefaultResponse EXCEPT !.result = v.val]
    ELSE [DefaultResponse EXCEPT !.error = Some("Key not found")]

\* The response to a Rm does not look at the result of engine.remove.
RmResponse_Plain(r) == DefaultResponse

\* Lines 260-268: the response to a Rm, from the result of engine.remove.
RmResponse(r) ==
  IF r.type = "Err"
    THEN [DefaultResponse EXCEPT !.error = Some("Key not found")]
    ELSE DefaultResponse

\* Lines 226-274: what the handler writes to the stream for request req
\* whose engine call returned r.
Responses(req, r) ==
  CASE req.type = "Get" -> IF r.type = "Err" THEN <<>> ELSE <<GetResponse(r)>>
    [] req.type = "Set" -> <<>>
    [] req.type = "Rm"  -> <<RmResponse(r)>>

HandlerReturn(t, r) ==
  conn' = [conn EXCEPT ![t].stage = "returned", ![t].ret = r]

\* kvs-client (src/src/bin/kvs-client.rs): one process per connection, run
\* with the subcommand cmd.  Its output is a sequence of lines, a line a
\* tuple of the pieces printed.  A connection whose peer is not kvs-client
\* has the client at stage "none".
ClientInit == [stage |-> "none", cmd |-> NoOp, stdout |-> <<>>, stderr |-> <<>>,
               code |-> 0]

\* The output and the exit status of the process.
ClientExit(out, err, code) == [stdout |-> out, stderr |-> err, code |-> code]

\* main returned Err(e): the runtime prints "Error: {e:?}" to stderr and the
\* process exits with status 1.
MainErr(err, e) == ClientExit(<<>>, Append(err, <<"Error: ">> \o e), 1)

\* Lines 104-139, get: deserialize one Response from the stream; an error
\* in it is printed to stderr and returned from main, otherwise the result
\* is printed to stdout.  The client reads the fields Error and Result of
\* its Response (lines 131 and 136): Result is a String and must be in the
\* JSON object, Error is an Option and may be missing; a field of another
\* name is ignored.  A failed deserialization is returned from main with `?`
\* before anything is printed.
ClientGet(s) ==
  IF s = <<>> THEN MainErr(<<>>, <<"Parser", "EOF while parsing a value">>)
  ELSE IF "Result" \notin DOMAIN s[1]
    THEN MainErr(<<>>, <<"Parser", "missing field ", "Result">>)
  ELSE IF "Error" \in DOMAIN s[1] /\ s[1].Error # None
    THEN MainErr(<<<<"Error: ", s[1].Error.val>>>>, <<"JSONParser", s[1].Error.val>>)
    ELSE ClientExit(<<<<s[1].Result>>>>, <<>>, 0)

\* Lines 190-199 and 210-212: a connection is accepted and its handler
\* starts on thread t.  The peer is a kvs-client run with one of the
\* subcommands (kvs-client.rs, lines 75-84; one request of each kind), or
\* another program.  At most as many handlers have their call still to make
\* as calls are left.
accept(t) ==
  /\ conn[t].stage \in {"closed", "returned"}
  /\ client[t].stage # "connected"
  /\ ops > Cardinality({u \in Threads : conn[u].stage \in {"read_line", "deserialize"}})
  /\ conn' = [conn EXCEPT ![t] = [ConnInit EXCEPT !.stage = "read_line"]]
  /\ stream' = [stream EXCEPT ![t] = <<>>]
  /\ \E cmd \in {c \in Requests : c.key = "a" /\ (c.type = "Set" => c.val = "1")}
                  \cup {NoOp} :
       client' = [client EXCEPT ![t] =
                    IF cmd = NoOp THEN ClientInit
                    ELSE [ClientInit EXCEPT !.stage = "connected", !.cmd = cmd]]
  /\ UNCHANGED <<marker, server, engineVars, poolVars, single, receiver>>

\* Lines 215-218: read_line fails, or returns at a newline or at the end of
\* the stream.  A peer that speaks kvs_protocol sends one of its lines.
\* kvs-client writes its request with serde_json::to_writer, without a
\* newline (kvs-client.rs, lines 89-100, 107-116, 143-153): read_line
\* returns the JSON text once the client has exited and its socket is
\* closed, and waits as long as the client waits for a response.
handle_read_line(t) ==
  /\ conn[t].stage = "read_line"
  /\ \/ HandlerReturn(t, Err("TCP"))
     \/ /\ client[t].stage = "none"
        /\ \E line \in ClientLines :
             conn' = [conn EXCEPT ![t].stage = "deserialize", ![t].buf = line]
     \/ /\ client[t].stage = "exited"
        /\ conn' = [conn EXCEPT ![t].stage = "deserialize",
                                ![t].buf = <<"{", client[t].cmd.type, client[t].cmd.key, "}">>]
  /\ UNCHANGED <<stream, engineVars, poolVars, binVars, single, receiver>>

\* Lines 220-226: decode the line; on success call the engine.
handle_deserialize(t) ==
  /\ conn[t].stage = "deserialize"
  /\ LET req == kvs_deserialize(conn[t].buf)
     IN IF req = DecodeError
          THEN /\ HandlerReturn(t, Err("TCP"))
               /\ UNCHANGED engineVars
          ELSE /\ Call(t, req)
               /\ conn' = [conn EXCEPT ![t].stage = "engine", ![t].req = req]
  /\ UNCHANGED <<stream, poolVars, binVars, single, receiver>>

\* Lines 229-275: the engine call has returned; write what the branch of
\* the request writes, and return Ok.
\* The socket may fail when a response is written and flushed; both calls
\* are unwrapped (lines 240-241, 271-272), so the failure is a panic that
\* unwinds the thread the handler runs on.
handle_respond(t) ==
  /\ conn[t].stage = "engine"
  /\ pc[t] = "idle"
  /\ \E io_ok \in BOOLEAN :
       IF io_ok \/ Responses(conn[t].req, res[t]) = <<>>
         THEN /\ io_ok
              /\ stream' = [stream EXCEPT ![t] = @ \o Responses(conn[t].req, res[t])]
              /\ conn' = [conn EXCEPT ![t].stage = "returned", ![t].engine = res[t],
                                      ![t].ret = Ok]
         ELSE /\ conn' = [conn EXCEPT ![t].stage = "panicked", ![t].engine = res[t]]
              /\ UNCHANGED stream
  /\ UNCHANGED <<engineVars, poolVars, binVars, single, receiver>>

\* main of kvs-client runs to its exit.  Lines 85-103 and 140-156, set and
\* rm: the request is written and flushed and main returns Ok(()) without
\* reading the stream.  Lines 104-139, get: after the request the client
\* waits until a response has arrived or the server has closed the
\* connection.
client_main(t) ==
  /\ client[t].stage = "connected"
  /\ client[t].cmd.type = "Get"
       => stream[t] # <<>> \/ conn[t].stage \in {"returned", "panicked"}
  /\ LET e == IF client[t].cmd.type = "Get" THEN ClientGet(stream[t])
                                            ELSE ClientExit(<<>>, <<>>, 0)
     IN client' = [client EXCEPT ![t].stage = "exited", ![t].stdout = e.stdout,
                                 ![t].stderr = e.stderr, ![t].code = e.code]
  /\ UNCHANGED <<marker, server, engineVars, poolVars, connVars, single, receiver>>

InitConn ==
  /\ conn = [t \in Threads |-> ConnInit]
  /\ stream = [t \in Threads |-> <<>>]

\* ------------------------------------------------------------ kvs-server
\* main of src/src/bin/kvs-server.rs: the engine marker file of the data
\* directory is compared with the --engine flag, written, and the store is
\* opened.  Starts follow one another on the same directory; the process
\* may be killed at any point.  fs::write truncates the file and then
\* writes: a process that ends in between leaves an empty file.

Engines == {"kvs", "sled"}

ServerInit == [pc |-> "down", flag |-> "kvs", code |-> 0, starts |-> 0]

\* A start of kvs-server with --engine flag (one of the values clap accepts,
\* lines 32-40).
main_start ==
  /\ server.pc \in {"down", "exited"}
  /\ server.starts < MaxStarts
  /\ \E flag \in Engines :
       server' = [pc |-> "check", flag |-> flag, code |-> 0,
                  starts |-> server.starts + 1]
  /\ UNCHANGED <<marker, client, single, receiver, engineVars, poolVars, connVars>>

\* Lines 58-66: if the marker file exists and its content differs from the
\* flag (`engine != *curr_engine`), exit(1).
main_check ==
  /\ server.pc = "check"
  /\ server' = IF marker # <<>> /\ marker[1] # server.flag
                 THEN [server EXCEPT !.pc = "exited", !.code = 1]
                 ELSE [server EXCEPT !.pc = "write"]
  /\ UNCHANGED <<marker, client, single, receiver, engineVars, poolVars, connVars>>

\* Line 69: fs::write of the flag to the marker file: File::create creates
\* or truncates the file, then write_all writes the flag.  File::create can
\* fail, which leaves the directory as it was, and write_all can fail after
\* the truncation, when none or only the first bytes of the flag are in the
\* file; either error is returned from main with `?` (status 1).  The
\* process can be killed after the truncation, with as much written.
main_write ==
  /\ server.pc = "write"
  /\ \E outcome \in {"written", "create_error", "write_error", "killed"} :
       /\ CASE outcome = "written" -> marker' = <<server.flag>>
            [] outcome = "create_error" -> marker' = marker
            [] OTHER ->
                 \E part \in IF server.flag = "kvs" THEN {"", "k", "kv"}
                                                    ELSE {"", "s", "sl", "sle"} :
                   marker' = <<part>>
       /\ server' = CASE outcome = "written" -> [server EXCEPT !.pc = "open"]
                      [] outcome = "killed" -> [server EXCEPT !.pc = "down", !.code = 137]
                      [] OTHER -> [server EXCEPT !.pc = "exited", !.code = 1]
  /\ UNCHANGED <<client, single, receiver, engineVars, poolVars, connVars>>

\* Lines 71-84: the store of the chosen engine is opened and the server
\* starts; KvStore::open for kvs, sled::open (which keeps no <N>.log) for
\* sled.
main_open ==
  /\ server.pc = "open"
  /\ server' = [server EXCEPT !.pc = "serving"]
  /\ IF server.flag = "kvs"
       THEN LET s == open(files, exists)
            IN /\ files' = s.files
               /\ exists' = s.exists
               /\ readers' = s.readers
               /\ key_dir' = s.key_dir
               /\ writer' = s.writer
               /\ log_idx' = s.log_idx
               /\ compactor' = s.compactor
       ELSE UNCHANGED <<files, exists, readers, key_dir, writer, log_idx, compactor>>
  /\ UNCHANGED <<writer_lock, compactor_lock, pc, op, loc, res, ops, opens,
                 lastDir, lastLog, lastRet>>
  /\ UNCHANGED <<marker, client, single, receiver, poolVars, connVars>>

\* The process is killed from outside: before the check, before or after
\* fs::write, or while server.start() serves.
main_stop ==
  /\ server.pc \in {"check", "write", "open", "serving"}
  /\ server' = [server EXCEPT !.pc = "down", !.code = 137]
  /\ UNCHANGED <<marker, client, single, receiver, engineVars, poolVars, connVars>>

\* No server process, no marker file, no client.
InitBin ==
  /\ marker = <<>>
  /\ server = ServerInit
  /\ client = [t \in Threads |-> ClientInit]

\* ------------------------------------------------- single-threaded engine
\* KvStore of src/src/kv.rs: one owner, records written with serde_json, a
\* reader handle per generation kept in a map.  The store is the record
\* `single`; a call is one step.

\* serde_json::to_writer of a Command: one JSON object, no separator.
json_serialize(c) ==
  IF c.type = "Set" THEN <<"{", "Set", c.key, c.val, "}">>
                    ELSE <<"{", "Remove", c.key, "}">>

\* The commands a log can hold.  The value "long" is a string of
\* COMPACTION_THRESHOLD - 3 bytes: its Set record is one byte longer than
\* the threshold.
Commands ==
  [type : {"Set"}, key : Keys, val : Vals \cup {"long"}] \cup [type : {"Rm"}, key : Keys]

\* The number of bytes of a buffer: every cell is one byte but the long
\* value.  Positions and lengths of the store are in bytes.
RECURSIVE ByteLen(_)
ByteLen(buf) ==
  IF buf = <<>> THEN 0
  ELSE (IF Head(buf) = "long" THEN SINGLE_COMPACTION_THRESHOLD - 3 ELSE 1)
       + ByteLen(Tail(buf))

\* seek(SeekFrom::Start(off)) and take(len): the bytes of buf from offset
\* off on, at most len of them.
RECURSIVE ByteSub(_, _, _)
ByteSub(buf, off, len) ==
  IF buf = <<>> \/ len <= 0 THEN <<>>
  ELSE IF off > 0 THEN ByteSub(Tail(buf), off - ByteLen(<<Head(buf)>>), len)
  ELSE <<Head(buf)>> \o ByteSub(Tail(buf), 0, len - ByteLen(<<Head(buf)>>))

\* The StreamDeserializer at offset off: the command whose encoding starts
\* there and the offset after it, or an error.
json_next(buf, off) ==
  LET rest == ByteSub(buf, off, ByteLen(buf))
      At(c) == /\ Len(json_serialize(c)) <= Len(rest)
               /\ SubSeq(rest, 1, Len(json_serialize(c))) = json_serialize(c)
  IN IF \E c \in Commands : At(c)
       THEN LET c == CHOOSE x \in Commands : At(x)
            IN [type |-> "Ok", cmd |-> c,
                byte_offset |-> off + ByteLen(json_serialize(c))]
       ELSE [type |-> "Err"]

\* serde_json::from_reader over exactly the bytes given: a command, or an
\* error when the bytes are not one whole command.
json_from_reader(bytes) ==
  LET r == json_next(bytes, 0)
  IN IF r.type = "Ok" /\ r.byte_offset = ByteLen(bytes) THEN r.cmd ELSE DecodeError

\* KvStore::get, lines 210-235: both the lookup of the reader and the
\* decoding are unwrapped.
single_get_result(s, k) ==
  IF k \notin DOMAIN s.key_dir THEN None
  ELSE LET pos == s.key_dir[k] IN
       IF pos.log_idx \notin s.readers THEN [type |-> "Panic"]
       ELSE LET c == json_from_reader(ByteSub(s.files[pos.log_idx], pos.starting_pos,
                                              pos.len))
            IN IF c.type = "Err" THEN [type |-> "Panic"]
               ELSE IF c.type = "Set" THEN Some(c.val) ELSE None

\* The first of the keys ks in the order in which a BTreeMap<String, _>
\* yields the keys of Keys.
FirstKey(ks) ==
  LET KeyOrder == <<"a", "b">>
  IN KeyOrder[CHOOSE i \in 1..Len(KeyOrder) :
                KeyOrder[i] \in ks /\ \A j \in 1..(i - 1) : KeyOrder[j] \notin ks]

\* The copy loop of KvStore::compaction, lines 108-146, over the keys todo
\* in the order of the BTreeMap: acc holds the key directory, the snapshot
\* bytes and the next starting position.
RECURSIVE single_copy(_, _, _, _)
single_copy(s, new_compaction_log_idx, todo, acc) ==
  IF todo = {} \/ acc.panic THEN acc
  ELSE LET k == FirstKey(todo) IN
       LET cmd_pos == acc.key_dir[k] IN
       IF cmd_pos.log_idx \notin s.readers
         THEN [acc EXCEPT !.panic = TRUE]
         ELSE LET bytes == ByteSub(s.files[cmd_pos.log_idx], cmd_pos.starting_pos,
                                   cmd_pos.len)
              IN single_copy(s, new_compaction_log_idx, todo \ {k},
                   [key_dir |-> DirInsert(acc.key_dir, k,
                                  CommandPos(new_compaction_log_idx, acc.new_starting_pos,
                                             ByteLen(bytes))),
                    buf |-> acc.buf \o bytes,
                    new_starting_pos |-> acc.new_starting_pos + ByteLen(bytes),
                    panic |-> FALSE])

\* The delete loop of KvStore::compaction, lines 154-163, over the
\* generations that had a reader, in the order stale_log_idx in which the
\* HashMap yielded them: each is dropped from the map and its file removed;
\* a missing file ends the call with an error.
RECURSIVE single_delete(_, _)
single_delete(s, stale_log_idx) ==
  IF stale_log_idx = <<>> \/ s.res.type = "Err" THEN s
  ELSE LET i == Head(stale_log_idx) IN
       LET dropped == [s EXCEPT !.readers = @ \ {i}] IN
       IF i \notin s.exists
         THEN [dropped EXCEPT !.res = Err("IO")]
         ELSE single_delete([dropped EXCEPT !.exists = @ \ {i}], Tail(stale_log_idx))

\* A file opened with create, write, append: it keeps the bytes it has.
Created(fs, g) == [x \in DOMAIN fs \cup {g} |-> IF x \in DOMAIN fs THEN fs[x] ELSE <<>>]

\* KvStore::compaction, lines 75-168; stale_log_idx is the order in which
\* the iteration of line 154 yields the readers.
single_compaction(s, stale_log_idx) ==
  LET new_compaction_log_idx == s.log_idx + 1
      active == s.log_idx + 2
      fs1 == Created(Created(s.files, active), new_compaction_log_idx)
      c == single_copy(s, new_compaction_log_idx, DOMAIN s.key_dir,
             [key_dir |-> s.key_dir, buf |-> <<>>, new_starting_pos |-> 0,
              panic |-> FALSE])
      s1 == [s EXCEPT !.log_idx = active,
                      !.writer = [log_idx |-> active, pos |-> 0, cursor |-> 0,
                                  append |-> TRUE],
                      !.files = fs1,
                      !.exists = @ \cup {active, new_compaction_log_idx},
                      !.key_dir = c.key_dir]
  IN IF c.panic THEN [s1 EXCEPT !.res = [type |-> "Panic"]]
     ELSE LET s2 == [s1 EXCEPT !.files[new_compaction_log_idx] = @ \o c.buf,
                               !.res = Ok]
              s3 == single_delete(s2, stale_log_idx)
          IN IF s3.res.type = "Err" THEN s3 ELSE [s3 EXCEPT !.uncompacted = 0]

\* KvStore::set, lines 177-207.
single_set_result(s, k, v, stale_log_idx) ==
  LET bytes == json_serialize([type |-> "Set", key |-> k, val |-> v])
      prev_pos == s.writer.pos
      w == [s.writer EXCEPT !.pos = @ + ByteLen(bytes), !.cursor = @ + ByteLen(bytes)]
      s1 == [s EXCEPT !.files = FileWrite(s.files, s.writer, bytes),
                      !.writer = w,
                      !.key_dir = DirInsert(s.key_dir, k,
                                    CommandPos(s.log_idx, prev_pos, w.pos - prev_pos)),
                      !.uncompacted = @ + OldLen(s.key_dir, k),
                      !.res = Ok]
  IN IF s1.uncompacted > SINGLE_COMPACTION_THRESHOLD
       THEN single_compaction(s1, stale_log_idx)
       ELSE s1

\* KvStore::remove, lines 257-269: the Remove record is written and flushed,
\* then the key is taken out of the key directory.
single_remove_result(s, k) ==
  LET bytes == json_serialize([type |-> "Rm", key |-> k])
  IN [s EXCEPT !.files = FileWrite(s.files, s.writer, bytes),
               !.writer = [@ EXCEPT !.pos = @ + ByteLen(bytes),
                                    !.cursor = @ + ByteLen(bytes)],
               !.key_dir = DirRemove(s.key_dir, k),
               !.res = IF k \in DOMAIN s.key_dir THEN Ok ELSE Err("KeyNotFound")]

\* The replay loop of KvStore::open over one file, lines 299-329: an error
\* of the deserializer is returned from open with `cmd?`.
RECURSIVE single_replay_file(_, _, _, _)
single_replay_file(buf, lf_idx, starting_pos, st) ==
  IF starting_pos >= ByteLen(buf) \/ st.failed THEN st
  ELSE LET r == json_next(buf, starting_pos) IN
       IF r.type = "Err" THEN [st EXCEPT !.failed = TRUE]
       ELSE LET read_so_far == r.byte_offset IN
            single_replay_file(buf, lf_idx, read_so_far,
              IF r.cmd.type = "Set"
                THEN [st EXCEPT !.kd = DirInsert(st.kd, r.cmd.key,
                                         CommandPos(lf_idx, starting_pos,
                                                    read_so_far - starting_pos)),
                                !.uncompacted = @ + OldLen(st.kd, r.cmd.key)]
                ELSE [st EXCEPT !.kd = DirRemove(st.kd, r.cmd.key),
                                !.uncompacted = @ + OldLen(st.kd, r.cmd.key)])

RECURSIVE single_replay(_, _, _, _)
single_replay(fs, ex, g, st) ==
  LET lf_idx == NextLogFile(ex, g) IN
  IF lf_idx = 0 \/ st.failed THEN st
  ELSE single_replay(fs, ex, lf_idx, single_replay_file(fs[lf_idx], lf_idx, 0, st))

\* KvStore::open, lines 271-357, on the directory with files fs (linked:
\* ex); ops and opens are the calls and the reopenings left.
single_open(fs, ex, ops_left, opens_left) ==
  LET st == single_replay(fs, ex, 0, [kd |-> EmptyDir, uncompacted |-> 0,
                                      failed |-> FALSE])
      new_log_idx == LastLogFile(ex) + 1
  IN IF st.failed
       THEN [files |-> fs, exists |-> ex, readers |-> {}, key_dir |-> EmptyDir,
             log_idx |-> 0,
             writer |-> [log_idx |-> 0, pos |-> 0, cursor |-> 0, append |-> TRUE],
             uncompacted |-> 0, res |-> Err("Parser"), last |-> NoOp,
             ops |-> ops_left, opens |-> opens_left]
       ELSE [files |-> Created(fs, new_log_idx),
             exists |-> ex \cup {new_log_idx},
             readers |-> ex \cup {new_log_idx},
             key_dir |-> st.kd,
             log_idx |-> new_log_idx,
             writer |-> [log_idx |-> new_log_idx, pos |-> 0, cursor |-> 0,
                         append |-> TRUE],
             uncompacted |-> st.uncompacted, res |-> Ok, last |-> NoOp,
             ops |-> ops_left, opens |-> opens_left]

\* A call is made on a store that is open: the last open succeeded and no
\* call panicked.

single_set ==
  /\ single.log_idx > 0 /\ single.res.type # "Panic" /\ single.ops > 0
  /\ \E c \in Commands, n \in {Cardinality(single.readers)} :
       \E stale_log_idx \in {f \in [1..n -> single.readers] :
                                \A i, j \in 1..n : f[i] = f[j] => i = j} :
         /\ c.type = "Set"
         /\ single' = [single_set_result(single, c.key, c.val, stale_log_idx) EXCEPT
                         !.last = c, !.ops = single.ops - 1]
  /\ UNCHANGED <<engineVars, poolVars, connVars, binVars, receiver>>

single_get ==
  /\ single.log_idx > 0 /\ single.res.type # "Panic" /\ single.ops > 0
  /\ \E k \in Keys :
       single' = [single EXCEPT !.res = single_get_result(single, k),
                                !.last = [type |-> "Get", key |-> k],
                                !.ops = single.ops - 1]
  /\ UNCHANGED <<engineVars, poolVars, connVars, binVars, receiver>>

single_remove ==
  /\ single.log_idx > 0 /\ single.res.type # "Panic" /\ single.ops > 0
  /\ \E k \in Keys :
       single' = [single_remove_result(single, k) EXCEPT
                    !.last = [type |-> "Rm", key |-> k],
                    !.ops = single.ops - 1]
  /\ UNCHANGED <<engineVars, poolVars, connVars, binVars, receiver>>

\* The owner drops the store and opens the directory again.
single_reopen ==
  /\ single.opens > 0
  /\ single' = single_open(single.files, single.exists, single.ops, single.opens - 1)
  /\ UNCHANGED <<engineVars, poolVars, connVars, binVars, receiver>>

\* KvStore::open on an empty directory; no call of the single-threaded
\* engine is made.
InitSingle == single = single_open(NoFiles, {}, 0, 0)

\* ------------------------------------------------- asynchronous compactor
\* The compaction thread KvServer::start spawns (src/src/server.rs, lines
\* 78-188): it receives a TxMessage from the channel, compacts the store
\* under the log writer's mutex and resets the shared counter with
\* try_write.  The record `receiver` holds the thread's position, its own
\* reader map and the locals of the compaction, the messages in the channel,
\* the counter and the holder of its RwLock, and the position of every
\* handler.  The variable log_idx is the AtomicU64 a message carries; the
\* compaction thread holds the mutex writer_lock under the number that
\* follows the handlers' numbers.  The handlers run
\* set: they append under the log writer's mutex, then add to the counter
\* under its write guard and send a message when it is above the threshold.

\* KvServer::new and the start of the thread, lines 52-80: the counter is
\* the one the open of the store computed.
InitAsync ==
  receiver = [pc |-> "recv", pending |-> 0, uncompacted |-> compactor.uncompacted,
              lock |-> 0, done |-> 0, updates |-> 0,
              readers |-> {}, todo |-> {}, cbuf |-> <<>>, new_starting_pos |-> 0,
              hpc |-> [h \in Threads |-> "idle"],
              old_cmd_len |-> [h \in Threads |-> 0]]

\* A handler runs set: under the log writer's mutex the Set record is
\* appended and the key directory entry inserted.
handler_set(h) ==
  /\ receiver.hpc[h] = "idle"
  /\ receiver.updates < MaxUpdates
  /\ writer_lock = 0
  /\ \E k \in Keys, v \in Vals :
       LET bytes == kvs_serialize([type |-> "Set", key |-> k, val |-> v])
           prev_pos == writer.pos
           w == BufWriterWithPos_write(files, writer, bytes)
       IN /\ files' = FileWrite(files, writer, bytes)
          /\ writer' = w
          /\ key_dir' = DirInsert(key_dir, k, CommandPos(log_idx, prev_pos, w.pos - prev_pos))
          /\ receiver' = [receiver EXCEPT !.hpc[h] = "lock",
                                          !.old_cmd_len[h] = OldLen(key_dir, k),
                                          !.updates = @ + 1]
  /\ UNCHANGED <<poolVars, connVars, binVars, single>>
  /\ UNCHANGED <<exists, readers, log_idx, compactor, writer_lock, compactor_lock,
                 pc, op, loc, res, ops, opens, lastDir, lastLog, lastRet>>

\* The handler takes the write guard of the counter.
handler_lock(h) ==
  /\ receiver.hpc[h] = "lock"
  /\ receiver.lock = 0
  /\ receiver' = [receiver EXCEPT !.lock = h, !.hpc[h] = "add"]
  /\ UNCHANGED <<engineVars, poolVars, connVars, binVars, single>>

\* The handler adds the len of the record its write superseded, sends a
\* message if the counter is above the threshold, and drops the guard.
handler_add(h) ==
  /\ receiver.hpc[h] = "add"
  /\ receiver.lock = h
  /\ LET u == receiver.uncompacted + receiver.old_cmd_len[h]
     IN receiver' = [receiver EXCEPT
                       !.uncompacted = u,
                       !.pending = IF u > COMPACTION_THRESHOLD THEN @ + 1 ELSE @,
                       !.lock = 0,
                       !.hpc[h] = "idle"]
  /\ UNCHANGED <<engineVars, poolVars, connVars, binVars, single>>

\* Line 80: rx_compaction.recv() takes the next message.
compactor_recv ==
  /\ receiver.pc = "recv"
  /\ receiver.pending > 0
  /\ receiver' = [receiver EXCEPT !.pc = "lock", !.pending = @ - 1]
  /\ UNCHANGED <<engineVars, poolVars, connVars, binVars, single>>

\* Lines 82-104: the log writer's mutex is taken and the compaction file
\* log_idx + 1 created (or opened, without truncating).  An error of the
\* open returns from the closure of the thread with `?`.
compactor_open ==
  /\ receiver.pc = "lock"
  /\ writer_lock = 0
  /\ \E io_ok \in BOOLEAN :
       IF io_ok
         THEN LET new_compaction_log_idx == log_idx + 1
              IN /\ writer_lock' = Cardinality(Threads) + 1
                 /\ exists' = exists \cup {new_compaction_log_idx}
                 /\ files' = IF new_compaction_log_idx \in DOMAIN files THEN files
                             ELSE [g \in DOMAIN files \cup {new_compaction_log_idx} |->
                                     IF g \in DOMAIN files THEN files[g] ELSE <<>>]
                 /\ receiver' = [receiver EXCEPT !.pc = "copy", !.todo = Keys,
                                                 !.cbuf = <<>>,
                                                 !.new_starting_pos = 0]
         ELSE /\ receiver' = [receiver EXCEPT !.pc = "ended"]
              /\ UNCHANGED <<writer_lock, exists, files>>
  /\ UNCHANGED <<poolVars, connVars, binVars, single>>
  /\ UNCHANGED <<readers, key_dir, writer, log_idx, compactor, compactor_lock,
                 pc, op, loc, res, ops, opens, lastDir, lastLog, lastRet>>

\* Lines 108-120: one turn of the iteration over the key directory, for the
\* next key the iterator yields (any order); a key that is not in the map
\* is not yielded.  An error of the copy (the open of a reader, the seek or
\* io::copy, engine/kv.rs lines 146-159) returns from the closure: the
\* compaction writer is dropped, which writes what it buffered as far as
\* the file takes it, and the mutex is released.  The open of a file that
\* is not there always fails.
compactor_copy ==
  /\ receiver.pc = "copy"
  /\ \E k \in receiver.todo, io_ok \in BOOLEAN :
       IF k \notin DOMAIN key_dir
         THEN /\ io_ok
              /\ receiver' = [receiver EXCEPT !.todo = @ \ {k}]
              /\ UNCHANGED <<files, key_dir, writer_lock>>
       ELSE LET can_open == ReaderCanOpen(exists, receiver.readers, key_dir[k].log_idx)
                copied == IF can_open THEN read_cmd_from_log_and_copy(files, key_dir[k])
                          ELSE <<>>
                copied_bytes == Len(copied)
            IN IF io_ok /\ can_open
                 THEN /\ key_dir' = [key_dir EXCEPT ![k] =
                                       CommandPos(log_idx + 1, receiver.new_starting_pos,
                                                  copied_bytes)]
                      /\ receiver' = [receiver EXCEPT
                                        !.readers = ReadersAfter(exists, @, key_dir[k].log_idx),
                                        !.todo = @ \ {k},
                                        !.cbuf = @ \o copied,
                                        !.new_starting_pos = @ + copied_bytes]
                      /\ UNCHANGED <<files, writer_lock>>
                 ELSE /\ ~io_ok
                      /\ \E n \in 0..Len(receiver.cbuf \o copied) :
                           files' = [files EXCEPT ![log_idx + 1] =
                                       WriteAt(@, 0, SubSeq(receiver.cbuf \o copied, 1, n))]
                      /\ receiver' = [receiver EXCEPT !.pc = "ended"]
                      /\ writer_lock' = 0
                      /\ UNCHANGED key_dir
  /\ UNCHANGED <<poolVars, connVars, binVars, single>>
  /\ UNCHANGED <<exists, readers, writer, log_idx, compactor, compactor_lock,
                 pc, op, loc, res, ops, opens, lastDir, lastLog, lastRet>>

\* Lines 121-179: the compaction file is flushed, the thread drops its
\* readers of the generations before log_idx + 1, deletes 1.log ..
\* <log_idx>.log in this order (a file that is not there is passed over),
\* opens <log_idx + 2>.log as the new log writer (created, not truncated,
\* written from offset 0) and stores log_idx + 2.  Each `?` returns from the
\* closure of the thread, which releases the mutex: a failed flush (121)
\* leaves a prefix of the copied records in the compaction file; a
\* remove_file that fails on j.log with an error other than NotFound
\* (153-161) leaves the files before j deleted and the others kept; a failed
\* open of <log_idx + 2>.log (172-177) leaves every old file deleted, the
\* log writer on its old file and log_idx not stored.
compactor_delete ==
  /\ receiver.pc = "copy"
  /\ receiver.todo = {}
  /\ LET new_compaction_log_idx == log_idx + 1
         g == log_idx + 2
         flushed == [files EXCEPT ![new_compaction_log_idx] =
                       WriteAt(@, 0, receiver.cbuf)]
         kept == {r \in receiver.readers : r >= new_compaction_log_idx}
     IN \E outcome \in {"done", "flush_error", "remove_error", "open_error"} :
          CASE outcome = "done" ->
                 /\ files' = IF g \in DOMAIN flushed THEN flushed
                             ELSE [x \in DOMAIN flushed \cup {g} |->
                                     IF x \in DOMAIN flushed THEN flushed[x] ELSE <<>>]
                 /\ exists' = (exists \ (1..log_idx)) \cup {g}
                 /\ writer' = [log_idx |-> g, pos |-> 0, cursor |-> 0, append |-> FALSE]
                 /\ log_idx' = g
                 /\ receiver' = [receiver EXCEPT !.pc = "reset", !.readers = kept]
                 /\ UNCHANGED writer_lock
            [] outcome = "flush_error" ->
                 /\ \E n \in 0..Len(receiver.cbuf) :
                      files' = [files EXCEPT ![new_compaction_log_idx] =
                                  WriteAt(@, 0, SubSeq(receiver.cbuf, 1, n))]
                 /\ receiver' = [receiver EXCEPT !.pc = "ended"]
                 /\ writer_lock' = 0
                 /\ UNCHANGED <<exists, writer, log_idx>>
            [] outcome = "remove_error" ->
                 /\ files' = flushed
                 /\ \E j \in 1..log_idx : exists' = exists \ (1..(j - 1))
                 /\ receiver' = [receiver EXCEPT !.pc = "ended", !.readers = kept]
                 /\ writer_lock' = 0
                 /\ UNCHANGED <<writer, log_idx>>
            [] outcome = "open_error" ->
                 /\ files' = flushed
                 /\ exists' = exists \ (1..log_idx)
                 /\ receiver' = [receiver EXCEPT !.pc = "ended", !.readers = kept]
                 /\ writer_lock' = 0
                 /\ UNCHANGED <<writer, log_idx>>
  /\ UNCHANGED <<poolVars, connVars, binVars, single>>
  /\ UNCHANGED <<readers, key_dir, compactor, compactor_lock,
                 pc, op, loc, res, ops, opens, lastDir, lastLog, lastRet>>

\* Lines 180-187: uncompacted.try_write(); the counter is set to 0 if the
\* guard is granted, otherwise a message is logged.  The log writer's mutex
\* is released and the thread goes back to recv.
compactor_reset ==
  /\ receiver.pc = "reset"
  /\ receiver' = [receiver EXCEPT
                    !.uncompacted = IF receiver.lock = 0 THEN 0 ELSE @,
                    !.done = @ + 1,
                    !.pc = "recv"]
  /\ writer_lock' = 0
  /\ UNCHANGED <<poolVars, connVars, binVars, single>>
  /\ UNCHANGED <<files, exists, readers, key_dir, writer, log_idx, compactor,
                 compactor_lock, pc, op, loc, res, ops, opens, lastDir, lastLog,
                 lastRet>>

\* ---------------------------------------------------------- specifications

InitThreads ==
  /\ writer_lock = 0
  /\ compactor_lock = 0
  /\ pc = [t \in Threads |-> "idle"]
  /\ op = [t \in Threads |-> NoOp]
  /\ loc = [t \in Threads |-> LocInit]
  /\ res = [t \in Threads |-> NoRes]
  /\ lastDir = NoOps
  /\ lastLog = NoOps
  /\ lastRet = NoRets

InitStore(s) ==
  /\ files = s.files
  /\ exists = s.exists
  /\ readers = s.readers
  /\ key_dir = s.key_dir
  /\ writer = s.writer
  /\ log_idx = s.log_idx
  /\ compactor = s.compactor

\* KvStore::open on an empty directory, and one client thread.
Init ==
  /\ InitStore(open(NoFiles, {}))
  /\ InitThreads
  /\ ops = MaxOps
  /\ opens = MaxOpens
  /\ InitPool
  /\ InitConn
  /\ InitBin
  /\ InitSingle
  /\ InitAsync

\* A step of a call that is in progress.
EngineStep(t) ==
  \/ set_append(t)
  \/ set_uncompacted(t)
  \/ set_check(t)
  \/ set_lock_writer(t)
  \/ set_lock_compactor(t)
  \/ remove_key_dir(t)
  \/ remove_append(t)
  \/ remove_uncompacted(t)
  \/ remove_lock_writer(t)
  \/ get(t)
  \/ compaction_open(t)
  \/ compaction_copy(t)
  \/ compaction_flush(t)
  \/ compaction_remove(t)
  \/ compaction_rotate(t)

Step(t) == call(t) \/ EngineStep(t)

Next == Step(1) \/ reopen

Spec == Init /\ [][Next]_vars

\* ------------------------------------------------------------- properties

Quiescent == \A t \in Threads : pc[t] = "idle"

\* No set or remove of key k is in progress.
NoWriteInProgress(k) ==
  \A t \in Threads : pc[t] = "idle" \/ op[t].type = "Get" \/ op[t].key # k

\* C1: once set(k,v) has returned Ok and no later set/remove of k has begun,
\* get(k) returns Some(v).
C1_SetThenGet ==
  \A k \in Keys :
    (/\ NoWriteInProgress(k)
     /\ lastRet[k].op.type = "Set"
     /\ lastRet[k].res = Ok)
      => GetResult(k) = Some(lastRet[k].op.val)

\* C2: after a remove(k) that returned Ok, with no later set of k, get(k)
\* returns None.
C2_RemoveThenGet ==
  \A k \in Keys :
    (/\ NoWriteInProgress(k)
     /\ lastRet[k].op.type = "Rm"
     /\ lastRet[k].res = Ok)
      => GetResult(k) = None

\* A get has returned None after a remove that returned Ok, while another
\* key is still present.
C2_Witness ==
  /\ Quiescent
  /\ \E k \in Keys : lastRet[k].op.type = "Rm" /\ lastRet[k].res = Ok
  /\ \E t \in Threads : res[t] = None
  /\ \E k \in Keys : k \in DOMAIN key_dir

\* C3: remove(k) of a key that is not in the key directory returns
\* KeyNotFound and leaves the key directory, the files, the writer and the
\* uncompacted counter as they were, so every get is unchanged.
C3_RemoveAbsent ==
  [][\A t \in Threads :
       (/\ pc[t] = "remove_key_dir"
        /\ pc'[t] # "remove_key_dir"
        /\ op[t].key \notin DOMAIN key_dir)
         => /\ pc'[t] = "idle"
            /\ res'[t] = Err("KeyNotFound")
            /\ UNCHANGED <<key_dir, files, exists, writer, compactor>>
            /\ \A k \in Keys : GetResult(k)' = GetResult(k)]_vars

C3_Witness ==
  /\ \E t \in Threads : res[t] = Err("KeyNotFound")
  /\ \E k \in Keys : k \in DOMAIN key_dir

\* C4: close; open preserves get(k) for every key k.
C4_ReopenPreservesGet ==
  [][opens' # opens => \A k \in Keys : GetResult(k)' = GetResult(k)]_vars

\* C5: every key-directory entry (g, off, len) of a key k covers, in g.log,
\* exactly one Set record whose key is k.
C5_KeyDirInvariant ==
  \A k \in DOMAIN key_dir :
    /\ key_dir[k].log_idx \in exists
    /\ LET c == kvs_deserialize(ReadAt(files[key_dir[k].log_idx],
                                       key_dir[k].starting_pos, key_dir[k].len))
       IN c.type = "Set" /\ c.key = k

\* C8: every key-directory entry names a generation whose file exists.
C8_EntryFileExists ==
  \A k \in DOMAIN key_dir : key_dir[k].log_idx \in exists

\* C9: the generation a set records in its new entry is the generation of
\* the file the writer appended the record to.
C9_EntryGenIsWriterGen ==
  [][\A t \in Threads :
       (pc[t] = "set_append" /\ pc'[t] = "set_uncompacted")
         => /\ files'[writer.log_idx] # files[writer.log_idx]
            /\ key_dir'[op[t].key].log_idx = writer.log_idx]_vars

\* C10: when a compaction with snapshot generation g_snap returns Ok, no
\* file g.log with g < g_snap exists.
C10_NoStaleFiles ==
  [][\A t \in Threads :
       (pc[t] = "compaction_rotate" /\ pc'[t] = "idle" /\ res'[t] = Ok)
         => \A g \in exists' : g >= loc[t].new_compaction_log_idx]_vars

C10_Witness ==
  /\ Quiescent
  /\ compactor.log_idx = log_idx + 2
  /\ \E t \in Threads : res[t] = Ok
  /\ exists = {log_idx + 1, log_idx + 2}

\* The data directory an earlier run leaves after set(a,1); set(a,1).
PriorRun == [g \in {1} |->
               kvs_serialize([type |-> "Set", key |-> "a", val |-> "1"])
                 \o kvs_serialize([type |-> "Set", key |-> "a", val |-> "1"])]

\* KvStore::open on that directory, and the clones of the store used by
\* the threads of Threads.
InitConc ==
  /\ InitStore(open(PriorRun, {1}))
  /\ InitThreads
  /\ ops = MaxOpsConc
  /\ opens = 0
  /\ InitPool
  /\ InitConn
  /\ InitBin
  /\ InitSingle
  /\ InitAsync

NextConc == \E t \in Threads : Step(t)

SpecConc == InitConc /\ [][NextConc]_vars

\* What a map holds for key k after the writes applied to the key
\* directory so far.
Expected(k) ==
  IF lastDir[k].type = "Set" THEN Some(lastDir[k].val) ELSE None

\* C6: every get(k) returns what a sequential map returns when the sets and
\* removes take effect in the order in which they reach the key directory.
C6_Linearizable ==
  [][\A t \in Threads :
       (/\ pc[t] = "get"
        /\ pc'[t] = "idle"
        /\ lastDir[op[t].key].type \in {"Set", "Rm"})
         => res'[t] = Expected(op[t].key)]_vars

\* C7: concurrent set/remove of a key reach the key directory in the order
\* in which their records reach the log: once the calls have returned, the
\* last set/remove applied to the key directory of a key is the last one
\* appended to the log.
C7_DirOrderIsLogOrder ==
  Quiescent => \A k \in Keys : lastDir[k] = lastLog[k]

\* ------------------------------------------------- compaction, continued

\* C11: when some file below the snapshot generation is already missing as
\* the compactor comes to delete the old generations, the compaction goes
\* on to rotate the writer (and so returns Ok with uncompacted = 0).
C11_MissingFileTolerated ==
  [][\A t \in Threads :
       (/\ pc[t] = "compaction_remove"
        /\ pc'[t] # "compaction_remove"
        /\ ~(StaleRange(loc[t].new_compaction_log_idx) \subseteq exists))
         => pc'[t] = "compaction_rotate"]_vars

\* C12: within one run of the store, uncompacted decreases only in the step
\* in which a compaction sets it to zero, and it is zero whenever a
\* compaction returns.
C12_UncompactedMonotone ==
  [][opens' = opens =>
       /\ compactor'.uncompacted < compactor.uncompacted
            => /\ compactor'.uncompacted = 0
               /\ \E t \in Threads : pc[t] = "compaction_rotate" /\ pc'[t] = "idle"
       /\ \A t \in Threads :
            (pc[t] \in CompactionPCs \cup {"compaction_open"} /\ pc'[t] = "idle")
              => compactor'.uncompacted = 0]_vars

\* C13: a set(k,v) that returned Ok, that ran while another thread's
\* compaction ran, and that is the last write applied to k: once every call
\* has returned, get(k) returns Some(v).
C13_SetDuringCompaction ==
  \A k \in Keys :
    (/\ Quiescent
     /\ lastRet[k].op.type = "Set"
     /\ lastRet[k].res = Ok
     /\ lastRet[k].conc
     /\ lastDir[k] = lastRet[k].op)
      => GetResult(k) = Some(lastRet[k].op.val)

\* C14: a remove(k) that took its entry out of the key directory while
\* another thread's compaction was iterating it, with no later set of k: k
\* stays absent while the remove and the compaction go on, and once every
\* call has returned k is absent and get(k) returns None.
C14_RemovedStaysRemoved ==
  /\ \A t \in Threads :
       (/\ pc[t] # "idle"
        /\ op[t].type = "Rm"
        /\ op[t].mid
        /\ lastDir[op[t].key] = WriteOp(t))
         => op[t].key \notin DOMAIN key_dir
  /\ \A k \in Keys :
       (/\ Quiescent
        /\ lastRet[k].op.type = "Rm"
        /\ lastRet[k].mid
        /\ lastDir[k] = lastRet[k].op)
         => k \notin DOMAIN key_dir /\ GetResult(k) = None

\* Both calls have returned: a remove that took its entry away during the
\* iteration of a compaction that went on to return Ok.
C14_Witness ==
  /\ Quiescent
  /\ \E k \in Keys :
       /\ lastRet[k].op.type = "Rm"
       /\ lastRet[k].mid
       /\ lastDir[k] = lastRet[k].op
  /\ \E t \in Threads : res[t] = Ok /\ compactor.log_idx = log_idx + 2

\* What get(k) returns on the store as KvStore::open leaves it.
InitialValue(k) ==
  LET s == open(PriorRun, {1})
  IN GetValue(s.files, s.exists, s.readers, s.key_dir, k)

\* C15: a get(k) that runs while another thread's compaction runs, for a
\* key that no call has written since open, returns what it returns without
\* the compaction.
C15_GetDuringCompaction ==
  [][\A t \in Threads :
       (/\ pc[t] = "get"
        /\ pc'[t] = "idle"
        /\ \E u \in Threads \ {t} : pc[u] \in CompactionPCs
        /\ lastDir[op[t].key].type = "-"
        /\ NoWriteInProgress(op[t].key))
         => res'[t] = InitialValue(op[t].key)]_vars

\* ------------------------------------------------------- pool specification

\* NaiveThreadPool::new, with the engine and the handlers at rest.
InitPoolSpec ==
  /\ InitStore(open(NoFiles, {}))
  /\ InitThreads
  /\ ops = 0
  /\ opens = 0
  /\ InitPool
  /\ InitConn
  /\ InitBin
  /\ InitSingle
  /\ InitAsync

OwnerStep ==
  \/ spawn_notify
  \/ shutdown_try_lock
  \/ shutdown_loop
  \/ shutdown_join

NextPool ==
  \/ \E w \in Workers : worker(w)
  \/ spawn_push
  \/ shutdown_store
  \/ OwnerStep
  \/ clock

SpecPool == InitPoolSpec /\ [][NextPool]_vars

\* Every thread that can take a step keeps being scheduled, and a thread
\* that is blocked on the mutex gets it when it is released again and
\* again (a waiting worker releases it for 100 ms at a time).  Nothing
\* obliges the owner to call spawn or shutdown.
PoolFairness ==
  /\ \A w \in Workers : SF_vars(worker(w))
  /\ SF_vars(OwnerStep)
  /\ WF_vars(clock)

SpecPoolFair == SpecPool /\ PoolFairness

\* ----------------------------------------------------- server specification

\* The server of src/src/bin/kvs-server.rs on the directory of an earlier
\* run: handlers on the threads of Threads share the engine.
InitServer ==
  /\ InitStore(open(PriorRun, {1}))
  /\ InitThreads
  /\ ops = MaxOpsConc
  /\ opens = 0
  /\ InitPool
  /\ InitConn
  /\ InitBin
  /\ InitSingle
  /\ InitAsync

HandlerStep(t) ==
  \/ accept(t)
  \/ handle_read_line(t)
  \/ handle_deserialize(t)
  \/ EngineStep(t)
  \/ handle_respond(t)
  \/ client_main(t)

NextServer == \E t \in Threads : HandlerStep(t)

SpecServer == InitServer /\ [][NextServer]_vars

\* ------------------------------------------------------- pool properties

\* Shutdown has just cleared the running flag of a pool whose queue is empty
\* and whose workers are neither running a task nor dead.
ShutdownCalled ==
  /\ owner.pc = "shutdown_try_lock"
  /\ job_queue = <<>>
  /\ \A w \in Workers : workers[w] \notin {"task", "panicked"}

\* C16: once shutdown has been called on a pool whose queued tasks have all
\* finished, shutdown eventually returns (Ok or the Pooling error).
C16_ShutdownReturns == ShutdownCalled ~> (owner.pc = "returned")

Queued(j) == \E i \in 1..Len(job_queue) : job_queue[i].id = j

\* C17: no job is started twice, and while the pool is not shut down and no
\* task has panicked, every job that spawn pushed is eventually started by
\* a worker.
C17_JobsRunOnce ==
  /\ [](\A j \in 1..MaxJobs : runs[j] <= 1)
  /\ \A j \in 1..MaxJobs :
       Queued(j) ~> (runs[j] = 1 \/ Panicked # {} \/ ~running)

\* Every job of the behaviour was spawned and run once, by a pool that is
\* still running with all its workers.
C17_Witness ==
  /\ owner.pc = "idle"
  /\ owner.spawned = MaxJobs
  /\ \A j \in 1..MaxJobs : runs[j] = 1
  /\ job_queue = <<>>
  /\ \A w \in Workers : workers[w] = "wait"
  /\ running

\* C18: the job_signal mutex is never held by a worker that runs a task or
\* has panicked, so it is never poisoned; and a job spawned after the panic
\* of a worker is eventually started by one of the remaining workers, as
\* long as a worker is left and the pool is not shut down.
C18_PanicDoesNotPoison ==
  /\ [](/\ ~poisoned
        /\ \A w \in Workers : workers[w] \in {"task", "panicked"} => job_signal # w)
  /\ \A j \in 1..MaxJobs :
       (late[j] # {} /\ Queued(j))
         ~> (runs[j] = 1 \/ Panicked = Workers \/ ~running)

\* ---------------------------------------------------- handler properties

\* The handler on thread t has returned after it decoded a request.
Served(t) == conn[t].stage = "returned" /\ conn[t].req # NoOp

\* C19: a handler that decoded a request has written exactly one response
\* when it returns, and for a Set that the engine accepted that response has
\* an empty result and no error.
C19_OneResponsePerRequest ==
  \A t \in Threads :
    Served(t) =>
      /\ Len(stream[t]) = 1
      /\ (conn[t].req.type = "Set" /\ conn[t].engine = Ok)
           => stream[t][1] = [error |-> None, result |-> ""]

\* C20: the response the handler wrote follows the engine result: Get with
\* Some(v) gives result v and no error; Get with None gives the error "Key
\* not found" and an empty result; Rm with KeyNotFound gives the same error
\* and an empty result; Rm with Ok gives an empty result and no error.
C20_ResponseMapping ==
  \A t \in Threads :
    Served(t) =>
      /\ (conn[t].req.type = "Get" /\ conn[t].engine.type = "Some")
           => stream[t] = <<[error |-> None, result |-> conn[t].engine.val]>>
      /\ (conn[t].req.type = "Get" /\ conn[t].engine = None)
           => stream[t] = <<[error |-> Some("Key not found"), result |-> ""]>>
      /\ (conn[t].req.type = "Rm" /\ conn[t].engine = Err("KeyNotFound"))
           => stream[t] = <<[error |-> Some("Key not found"), result |-> ""]>>
      /\ (conn[t].req.type = "Rm" /\ conn[t].engine = Ok)
           => stream[t] = <<[error |-> None, result |-> ""]>>

\* One handler answered a Rm of an absent key, another a Get of a present
\* key.
C20_Witness ==
  \E t, u \in Threads :
    /\ Served(t) /\ conn[t].req.type = "Rm" /\ conn[t].engine = Err("KeyNotFound")
    /\ stream[t] = <<[error |-> Some("Key not found"), result |-> ""]>>
    /\ Served(u) /\ conn[u].req.type = "Get" /\ conn[u].engine.type = "Some"
    /\ stream[u] = <<[error |-> None, result |-> conn[u].engine.val]>>

\* C21: a response with the error "Key not found" is written only when the
\* engine returned KeyNotFound, or None to a Get.
C21_KeyNotFoundOnlyForMissingKey ==
  \A t \in Threads :
    (Served(t) /\ \E i \in 1..Len(stream[t]) :
                    stream[t][i].error = Some("Key not found"))
      => \/ conn[t].engine = Err("KeyNotFound")
         \/ (conn[t].req.type = "Get" /\ conn[t].engine = None)

\* The threads that still serve connections.
LiveWorkers == {t \in Threads : conn[t].stage # "panicked"}

\* C22: a socket error while a request is read or a response is written
\* ends the connection only: the handler returns with the TCP error or Ok,
\* and every thread stays among the live workers.
C22_SocketErrorEndsConnectionOnly ==
  /\ LiveWorkers = Threads
  /\ \A t \in Threads :
       conn[t].stage = "returned" => conn[t].ret \in {Ok, Err("TCP")}

\* ------------------------------------------------- kvs-server specification

\* An empty data directory on which kvs-server is started again and again.
InitMain ==
  /\ files = NoFiles
  /\ exists = {}
  /\ readers = {}
  /\ key_dir = EmptyDir
  /\ writer = [log_idx |-> 0, pos |-> 0, cursor |-> 0, append |-> TRUE]
  /\ log_idx = 0
  /\ compactor = [log_idx |-> 0, uncompacted |-> 0]
  /\ InitThreads
  /\ ops = 0
  /\ opens = 0
  /\ InitPool
  /\ InitConn
  /\ InitBin
  /\ InitSingle
  /\ InitAsync

NextMain ==
  \/ main_start
  \/ main_check
  \/ main_write
  \/ main_open
  \/ main_stop

SpecMain == InitMain /\ [][NextMain]_vars

\* C23: the marker file, once it has content, never changes; a start whose
\* flag differs from the marker ends with a non-zero status at the check,
\* and from the check until the next start the marker and the log files of
\* the directory stay as they were.
C23_MarkerNeverChanges ==
  [][/\ marker \in {<<e>> : e \in Engines} => marker' = marker
     /\ (server.pc = "check" /\ marker # <<>> /\ marker # <<server.flag>>)
          => /\ server'.pc \in {"exited", "down"} /\ server'.code # 0
             /\ marker' = marker /\ exists' = exists /\ files' = files
     /\ server.pc = "exited"
          => marker' = marker /\ exists' = exists /\ files' = files]_vars

\* ------------------------------------- single-threaded engine specification

InitSingleSpec ==
  /\ InitStore(open(NoFiles, {}))
  /\ InitThreads
  /\ ops = 0
  /\ opens = 0
  /\ InitPool
  /\ InitConn
  /\ InitBin
  /\ single = single_open(NoFiles, {}, MaxOpsSingle, MaxOpens)
  /\ InitAsync

NextSingle ==
  \/ single_set
  \/ single_get
  \/ single_remove
  \/ single_reopen

SpecSingle == InitSingleSpec /\ [][NextSingle]_vars

\* C26: in the single-threaded engine a remove that returns KeyNotFound
\* has appended nothing: every log file holds the bytes it held before.
C26_SingleRemoveAbsentWritesNothing ==
  [][(single'.last.type = "Rm" /\ single'.ops < single.ops
        /\ single'.res = Err("KeyNotFound"))
       => single'.files = single.files]_vars

\* ------------------------------------------------------------ open claims

\* The largest element of a set of generations, 0 for the empty set.
MaxGen(gs) == IF gs = {} THEN 0 ELSE CHOOSE x \in gs : \A y \in gs : y <= x

\* C27: open on the empty directory makes generation 1 the active one, and
\* every reopen makes (largest generation in the directory) + 1 the active
\* generation, creates its file empty, points the writer at it, and leaves
\* every key-directory entry in a smaller generation.
C27_OpenAllocatesNextGeneration ==
  /\ (log_idx = 1 /\ exists = {1} /\ files[1] = <<>>)
  /\ [][opens' < opens
          => /\ log_idx' = MaxGen(exists) + 1
             /\ exists' = exists \cup {log_idx'}
             /\ files'[log_idx'] = <<>>
             /\ writer'.log_idx = log_idx'
             /\ compactor'.log_idx = log_idx'
             /\ \A k \in DOMAIN key_dir' : key_dir'[k].log_idx < log_idx']_vars

\* The store was just reopened on a directory that a compaction left
\* without generation 1, and replay built a key directory.
C27_Witness ==
  /\ opens < MaxOpens
  /\ lastRet = NoRets
  /\ res = [t \in Threads |-> NoRes]
  /\ key_dir # EmptyDir
  /\ 1 \notin exists
  /\ log_idx = MaxGen(exists)

\* --------------------------------------------------- uncompacted claims

\* C28: the step of remove that updates uncompacted adds the byte length
\* of the Rm record the call appended plus the len of the entry it removed.
C28_RemoveAddsTombstoneAndEntry ==
  [][\A t \in Threads :
       (pc[t] = "remove_uncompacted" /\ pc'[t] # "remove_uncompacted")
         => compactor'.uncompacted =
              compactor.uncompacted + Len(kvs_serialize(op[t])) + loc[t].old_cmd_len]_vars

\* The bytes of the Rm records of one file that remove a key which is live
\* when the record is reached; st is the set of live keys and the count.
RECURSIVE TombstonesOfFile(_, _, _)
TombstonesOfFile(buf, off, st) ==
  LET end == NextChunkEnd(buf, off) IN
  IF end = 0 THEN st
  ELSE LET cmd == kvs_deserialize(SubSeq(buf, off + 1, end)) IN
       TombstonesOfFile(buf, end,
         IF cmd.type = "Set"
           THEN [st EXCEPT !.live = @ \cup {cmd.key}]
         ELSE IF cmd.type = "Rm" /\ cmd.key \in st.live
           THEN [live |-> st.live \ {cmd.key}, bytes |-> st.bytes + (end - off)]
         ELSE st)

RECURSIVE Tombstones(_, _, _, _)
Tombstones(fs, ex, g, st) ==
  LET lf_idx == NextLogFile(ex, g) IN
  IF lf_idx = 0 THEN st
  ELSE Tombstones(fs, ex, lf_idx, TombstonesOfFile(fs[lf_idx], 0, st))

\* C29: after a reopen, uncompacted is the sum of the lens of the entries
\* that replay superseded or removed plus the byte lengths of the Rm records
\* that removed a present key.
C29_ReplayCountsTombstones ==
  [][opens' < opens
       => compactor'.uncompacted =
            replay(files, exists, 0, [kd |-> EmptyDir, uncompacted |-> 0]).uncompacted
            + Tombstones(files, exists, 0, [live |-> {}, bytes |-> 0]).bytes]_vars

\* ------------------------------------------------------- replay of a log

\* The log files of at most MaxRecords lines, each the record of a request
\* or a line that is no record.
RECURSIVE LogsOfLength(_)
LogsOfLength(n) ==
  IF n = 0 THEN {<<>>}
  ELSE {log \o line : log \in LogsOfLength(n - 1), line \in ClientLines}

PriorLogs == UNION {LogsOfLength(n) : n \in 0..MaxRecords}

\* A data directory holding 1.log, not opened yet.
InitReplay ==
  /\ \E log \in PriorLogs : files = [g \in {1} |-> log]
  /\ exists = {1}
  /\ readers = {}
  /\ key_dir = EmptyDir
  /\ writer = [log_idx |-> 0, pos |-> 0, cursor |-> 0, append |-> TRUE]
  /\ log_idx = 0
  /\ compactor = [log_idx |-> 0, uncompacted |-> 0]
  /\ InitThreads
  /\ ops = 0
  /\ opens = MaxOpens
  /\ InitPool
  /\ InitConn
  /\ InitBin
  /\ InitSingle
  /\ InitAsync

SpecReplay == InitReplay /\ [][reopen]_vars

\* The offset at which the first line of buf that is no record starts, or
\* the length of buf when every line is one.
RECURSIVE FirstUndecodable(_, _)
FirstUndecodable(buf, off) ==
  LET end == NextChunkEnd(buf, off) IN
  IF end = 0 THEN Len(buf)
  ELSE IF kvs_deserialize(SubSeq(buf, off + 1, end)).type = "Err" THEN off
  ELSE FirstUndecodable(buf, end)

\* C30: once the directory is open, every key-directory entry lies before
\* the first undecodable line of its file and covers exactly the bytes of
\* one Set record of its key.
C30_ReplayStopsAtUndecodable ==
  log_idx > 0 =>
    \A k \in DOMAIN key_dir :
      LET e == key_dir[k]
          buf == files[e.log_idx]
      IN /\ e.starting_pos + e.len <= FirstUndecodable(buf, 0)
         /\ e.starting_pos + e.len <= Len(buf)
         /\ kvs_deserialize(ReadAt(buf, e.starting_pos, e.len)).type = "Set"
         /\ kvs_deserialize(ReadAt(buf, e.starting_pos, e.len)).key = k

\* ------------------------------------------------------ kvs-client claims

\* The text t is in one of the lines.
Printed(lines, t) ==
  \E i \in 1..Len(lines) : \E j \in 1..Len(lines[i]) : lines[i][j] = t

\* The error a response reports, under either spelling of the field.
ReplyError(r) ==
  IF "Error" \in DOMAIN r THEN r.Error
  ELSE IF "error" \in DOMAIN r THEN r.error ELSE None

\* A kvs-client has connected to a server, which has answered the request
\* with one of the responses of transport.rs (fields error and result), with
\* one of the responses of the client's own Response type (fields Error and
\* Result), or with none, and closed the connection.
InitClient ==
  /\ InitStore(open(NoFiles, {}))
  /\ InitThreads
  /\ ops = 0
  /\ opens = 0
  /\ InitPool
  /\ conn = [t \in Threads |-> [ConnInit EXCEPT !.stage = "returned"]]
  /\ stream \in [Threads -> {<<>>} \cup
                   {<<r>> : r \in {GetResponse(Some("1")), GetResponse(None),
                                   DefaultResponse}} \cup
                   {<<[Error |-> e, Result |-> r]>> :
                      e \in {None, Some("Key not found")}, r \in {"", "1"}}]
  /\ marker = <<>>
  /\ server = ServerInit
  /\ client \in [Threads -> {[ClientInit EXCEPT !.stage = "connected", !.cmd = cmd] :
                               cmd \in Requests}]
  /\ InitSingle
  /\ InitAsync

SpecClient == InitClient /\ [][\E t \in Threads : client_main(t)]_vars

\* C24: kvs-client get that received a response with error "Key not found"
\* has printed "Key not found" to stdout and exited with status 0.
C24_GetMissPrintsToStdout ==
  \A t \in Threads :
    (/\ client[t].stage = "exited"
     /\ client[t].cmd.type = "Get"
     /\ stream[t] # <<>>
     /\ ReplyError(stream[t][1]) = Some("Key not found"))
      => /\ client[t].code = 0
         /\ Printed(client[t].stdout, "Key not found")

\* C25: kvs-client rm of a key the server reported absent (its response
\* has the error "Key not found") has printed "Key not found" to stderr and
\* exited non-zero; rm of a key the server removed has exited with status 0
\* and empty stdout.
C25_RmMissFails ==
  \A t \in Threads :
    (client[t].stage = "exited" /\ client[t].cmd.type = "Rm" /\ stream[t] # <<>>)
      => /\ ReplyError(stream[t][1]) = Some("Key not found")
              => /\ client[t].code # 0
                 /\ Printed(client[t].stderr, "Key not found")
         /\ ReplyError(stream[t][1]) = None
              => client[t].code = 0 /\ client[t].stdout = <<>>

\* ----------------------------------------------------- compaction trigger

\* C31: a thread that is about to start Compactor::compaction, holding both
\* locks, sees uncompacted above the threshold.
C31_CompactionOnlyAboveThreshold ==
  \A t \in Threads :
    pc[t] = "compaction_open" => compactor.uncompacted > COMPACTION_THRESHOLD

\* ----------------------------------------------------- generation numbers

\* The directory a process leaves that called set(a, 1) three times (the
\* third call compacted into 2.log and moved the writer to 3.log) and then
\* set(a, 2).
PriorCompacted ==
  [g \in {2, 3} |->
     IF g = 2 THEN kvs_serialize([type |-> "Set", key |-> "a", val |-> "1"])
              ELSE kvs_serialize([type |-> "Set", key |-> "a", val |-> "2"])]

\* KvStore::open on a directory an earlier process left, before or after
\* its first compaction, and one client thread.
InitGen ==
  /\ \E dir \in {PriorRun, PriorCompacted} : InitStore(open(dir, DOMAIN dir))
  /\ InitThreads
  /\ ops = MaxOpsGen
  /\ opens = 0
  /\ InitPool
  /\ InitConn
  /\ InitBin
  /\ InitSingle
  /\ InitAsync

SpecGen == InitGen /\ [][Step(1)]_vars

\* C32: the snapshot generation a compaction opens and the active
\* generation it rotates to have not been used for a file by an earlier
\* compaction or by the open of this process.
C32_GenerationsNeverReused ==
  [][\A t \in Threads :
       /\ (pc[t] = "compaction_open" /\ pc'[t] = "compaction_copy")
            => compactor.log_idx + 1 \notin DOMAIN files
       /\ (pc[t] = "compaction_rotate" /\ pc'[t] = "idle")
            => compactor.log_idx + 2 \notin DOMAIN files]_vars

\* --------------------------------------------------------- writer position

\* C33: while no call holds the writer between its write and its return,
\* the position the writer tracks is the number of bytes its handle has
\* appended to the active log file, which starts empty.
C33_WriterPosIsFileLength ==
  Quiescent => writer.pos = Len(files[writer.log_idx])

\* ------------------------------------------------------- mutual exclusion

\* The threads inside Compactor::compaction.
Compacting == {t \in Threads : pc[t] \in CompactionPCs \cup {"compaction_open"}}

\* C36: at most one thread is inside Compactor::compaction, and a step of
\* another thread taken meanwhile appends nothing to a log file, leaves the
\* writer as it is and inserts or changes no key-directory entry.
C36_CompactionExcludesWriters ==
  /\ [](Cardinality(Compacting) <= 1)
  /\ [][\A t \in Threads :
          (pc'[t] # pc[t] /\ Compacting \ {t} # {})
            => /\ files' = files
               /\ writer' = writer
               /\ \A k \in DOMAIN key_dir' :
                    k \in DOMAIN key_dir /\ key_dir'[k] = key_dir[k]]_vars

\* A set or remove waits for the writer lock while the other thread's
\* compaction is copying entries.
C36_Witness ==
  \E t \in Threads, u \in Threads :
    /\ pc[t] = "compaction_copy"
    /\ loc[t].todo # Keys
    /\ pc[u] \in {"set_append", "remove_append"}

\* ------------------------------------------------------ deadlock freedom

\* Every thread that can take a step of its call eventually takes one.
SpecConcFair == SpecConc /\ \A t \in Threads : WF_vars(Step(t))

\* C37: every call that has started eventually returns.
C37_EveryCallReturns ==
  \A t \in Threads : (pc[t] # "idle") ~> (pc[t] = "idle")

\* ------------------------------------------------------------ failed set

\* C39: when a set returns an error, get of its key returns what it
\* returned when the call started.
C39_FailedSetChangesNothing ==
  [][\A t \in Threads :
       (op[t].type = "Set" /\ pc[t] # "idle" /\ pc'[t] = "idle"
          /\ res'[t].type = "Err")
         => GetValue(files', exists', readers', key_dir', op[t].key) = op[t].before]_vars

\* ------------------------------------------------------- pool wake-ups

\* As SpecPoolFair, except that nothing obliges a task to return: a worker
\* is scheduled for the steps of its loop, not for the end of task().
SpecPoolStuck ==
  /\ SpecPool
  /\ \A w \in Workers :
       SF_vars(worker_pop(w) \/ worker_lock(w) \/ worker_check(w) \/ worker_wake(w))
  /\ SF_vars(OwnerStep)
  /\ WF_vars(clock)

\* C38: a job that is in the queue while a worker waits on the condition
\* variable is eventually started, as long as the pool is not shut down
\* and no task has panicked, whether or not the running tasks return.
C38_QueuedJobStartsWhileWorkerIdle ==
  \A j \in 1..MaxJobs :
    (Queued(j) /\ \E w \in Workers : workers[w] = "wait")
      ~> (runs[j] = 1 \/ Panicked # {} \/ ~running)

\* ------------------------------------------ asynchronous compactor claims

NextAsync ==
  \/ \E h \in Threads : handler_set(h)
  \/ \E h \in Threads : handler_lock(h)
  \/ \E h \in Threads : handler_add(h)
  \/ compactor_recv
  \/ compactor_open
  \/ compactor_copy
  \/ compactor_delete
  \/ compactor_reset

SpecAsync == InitServer /\ [][NextAsync]_vars

\* The compaction thread and a handler that holds the guard of the counter
\* keep running.
SpecAsyncFair ==
  /\ SpecAsync
  /\ WF_vars(compactor_recv \/ compactor_open \/ compactor_copy
               \/ compactor_delete \/ compactor_reset)
  /\ WF_vars(\E h \in Threads : handler_lock(h) \/ handler_add(h))

\* C34: the step that completes a compaction leaves the counter at zero.
C34_CompactionResetsCounter ==
  [][receiver'.done > receiver.done => receiver'.uncompacted = 0]_vars

\* C40: every message in the channel is eventually received.
C40_SignalsProcessed ==
  (receiver.pending > 0) ~> (receiver.pending = 0)

\* ------------------------------- single-threaded engine after compaction

\* C35: every key of the key directory is readable: get finds a reader for
\* the generation its entry names and decodes a command, after a compaction
\* as before it.
C35_KeysReadableAfterCompaction ==
  \A k \in DOMAIN single.key_dir : single_get_result(single, k).type # "Panic"

====
